---- MODULE Spec2Model ----
(***************************************************************************)
(* A model of the collection and deduplication pipeline of CE48_Final:     *)
(* the three copies of normalize_url, the two fingerprints, the RSS, API,  *)
(* Scrape and Scholar collectors (Python generators) and the orchestrator  *)
(* build_raw_dataset that runs them over one shared set seen_hashes.       *)
(*                                                                         *)
(* A Python str is a sequence of one-character strings.  The characters    *)
(* of the model are ASCII letters, digits, the space and the URL           *)
(* delimiters; no input holds '%' or '+', so unquote changes nothing and   *)
(* is omitted, while quote_plus is modelled on the delimiters.             *)
(***************************************************************************)
EXTENDS Integers, Sequences, FiniteSets, TLC

(***************************************************************************)
(* str methods                                                             *)
(***************************************************************************)
UPPERCASE == <<"A", "B", "C", "D", "E", "F", "G", "H", "I", "J", "K", "L", "M",
               "N", "O", "P", "Q", "R", "S", "T", "U", "V", "W", "X", "Y", "Z">>

LOWERCASE == <<"a", "b", "c", "d", "e", "f", "g", "h", "i", "j", "k", "l", "m",
               "n", "o", "p", "q", "r", "s", "t", "u", "v", "w", "x", "y", "z">>

DIGITS == {"0", "1", "2", "3", "4", "5", "6", "7", "8", "9"}

WHITESPACE == {" "}

Range(s) == {s[i] : i \in 1..Len(s)}

MinOf(S) == CHOOSE x \in S : \A y \in S : x <= y

MaxOf(S) == CHOOSE x \in S : \A y \in S : x >= y

\* str.lower() on one character
lower_char(c) ==
    IF \E i \in 1..26 : UPPERCASE[i] = c
    THEN LOWERCASE[CHOOSE i \in 1..26 : UPPERCASE[i] = c]
    ELSE c

\* str.lower()
lower(s) == [i \in 1..Len(s) |-> lower_char(s[i])]

\* s[from-1:] as a sequence (from is 1-based; empty when past the end)
suffix(s, from) == IF from > Len(s) THEN <<>> ELSE SubSeq(s, from, Len(s))

\* s[:n]
prefix(s, n) == IF n >= Len(s) THEN s ELSE SubSeq(s, 1, n)

\* str.startswith(p)
startswith(s, p) == Len(s) >= Len(p) /\ SubSeq(s, 1, Len(p)) = p

\* str.find(c, from) for a one-character c: the 1-based index, 0 when absent
find(s, c, from) ==
    LET hits == {i \in from..Len(s) : s[i] = c}
    IN  IF hits = {} THEN 0 ELSE MinOf(hits)

\* str.rfind(c) for a one-character c: the 1-based index, 0 when absent
rfind(s, c) ==
    LET hits == {i \in 1..Len(s) : s[i] = c}
    IN  IF hits = {} THEN 0 ELSE MaxOf(hits)

\* the first index at or after from holding any character of cs, Len(s)+1 if none
find_any(s, cs, from) ==
    LET hits == {i \in from..Len(s) : s[i] \in cs}
    IN  IF hits = {} THEN Len(s) + 1 ELSE MinOf(hits)

\* str.rstrip(c) with a one-character argument: strips EVERY trailing c
rstrip(s, c) ==
    LET keep == {i \in 1..Len(s) : s[i] # c}
    IN  IF keep = {} THEN <<>> ELSE SubSeq(s, 1, MaxOf(keep))

\* str.strip(): leading and trailing whitespace removed
strip(s) ==
    LET keep == {i \in 1..Len(s) : s[i] \notin WHITESPACE}
    IN  IF keep = {} THEN <<>> ELSE SubSeq(s, MinOf(keep), MaxOf(keep))

\* str.split(c) for a one-character separator
RECURSIVE split(_, _)
split(s, c) ==
    LET i == find(s, c, 1)
    IN  IF i = 0 THEN <<s>>
        ELSE <<prefix(s, i - 1)>> \o split(suffix(s, i + 1), c)

\* str.split(c, 1): a one- or two-element list
split1(s, c) ==
    LET i == find(s, c, 1)
    IN  IF i = 0 THEN <<s>> ELSE <<prefix(s, i - 1), suffix(s, i + 1)>>

\* sep.join(parts)
RECURSIVE join(_, _)
join(parts, sep) ==
    IF parts = <<>> THEN <<>>
    ELSE IF Len(parts) = 1 THEN parts[1]
    ELSE parts[1] \o sep \o join(Tail(parts), sep)

\* str.replace(p, ''): every non-overlapping occurrence of p removed, left to right
RECURSIVE remove_all(_, _)
remove_all(s, p) ==
    IF s = <<>> \/ p = <<>> THEN s
    ELSE IF startswith(s, p) THEN remove_all(suffix(s, Len(p) + 1), p)
    ELSE <<s[1]>> \o remove_all(Tail(s), p)

(***************************************************************************)
(* urllib.parse (CPython 3.11), as called by normalize_url                 *)
(***************************************************************************)
SCHEME_CHARS == Range(UPPERCASE) \cup Range(LOWERCASE) \cup DIGITS \cup {"+", "-", "."}

is_alpha(c) == c \in Range(UPPERCASE) \cup Range(LOWERCASE)

HTTP == <<"h", "t", "t", "p">>

HTTPS == <<"h", "t", "t", "p", "s">>

\* the members of urllib.parse.uses_params / uses_netloc the model's URLs can have
uses_params == {<<>>, HTTP, HTTPS}

uses_netloc == {<<>>, HTTP, HTTPS}

\* s.split(c, 1) given i = s.find(c), padded with '' when c is absent
cut(s, i) == IF i = 0 THEN <<s, <<>>>> ELSE <<prefix(s, i - 1), suffix(s, i + 1)>>

\* urlsplit, first step: url[:i] is the scheme if i = url.find(':') is positive, url
\* starts with a letter and url[:i] holds scheme characters only
split_scheme(url, i) ==
    IF i > 1 /\ is_alpha(url[1]) /\ (\A k \in 1..(i - 1) : url[k] \in SCHEME_CHARS)
    THEN <<lower(prefix(url, i - 1)), suffix(url, i + 1)>>
    ELSE <<<<>>, url>>

\* _splitnetloc(url, 2) when url[:2] == '//', delim being the first of '/?#' after it
splitnetloc(url, delim) ==
    IF prefix(url, 2) = <<"/", "/">>
    THEN <<SubSeq(url, 3, delim - 1), suffix(url, delim)>>
    ELSE <<<<>>, url>>

\* urlsplit, last steps: the fragment is split off, then the query
SplitResult(scheme, netloc, path_query, fragment) ==
    [scheme |-> scheme, netloc |-> netloc, path |-> path_query[1],
     query |-> path_query[2], fragment |-> fragment]

split_query(scheme, netloc, url_fragment) ==
    SplitResult(scheme, netloc, cut(url_fragment[1], find(url_fragment[1], "?", 1)),
                url_fragment[2])

split_fragment(scheme, netloc_url) ==
    split_query(scheme, netloc_url[1], cut(netloc_url[2], find(netloc_url[2], "#", 1)))

split_netloc(scheme_url) ==
    split_fragment(scheme_url[1],
                   splitnetloc(scheme_url[2], find_any(scheme_url[2], {"/", "?", "#"}, 3)))

\* urlsplit(url): scheme, netloc, path, query, fragment
urlsplit(url) == split_netloc(split_scheme(url, find(url, ":", 1)))

\* _splitparams(path): the path and the ;params of its last segment, i being
\* path.find(';', path.rfind('/')) (or path.find(';') when the path has no '/')
splitparams(path, i) == cut(path, i)

\* urlparse(url): urlsplit plus the params of the last path segment
ParseResult(sp, path_params) ==
    [scheme |-> sp.scheme, netloc |-> sp.netloc, path |-> path_params[1],
     params |-> path_params[2], query |-> sp.query, fragment |-> sp.fragment]

urlparse_split(sp) ==
    ParseResult(sp, IF sp.scheme \in uses_params /\ ";" \in Range(sp.path)
                    THEN splitparams(sp.path, find(sp.path, ";", MaxOf({1, rfind(sp.path, "/")})))
                    ELSE <<sp.path, <<>>>>)

urlparse(url) == urlparse_split(urlsplit(url))

\* parse_qsl(qs): the (name, value) pairs; a pair with no '=' or a blank value is dropped
parse_qsl(qs) ==
    LET parts == split(qs, "&")
        nvs == [i \in 1..Len(parts) |-> split1(parts[i], "=")]
        kept(nv) == Len(nv) = 2 /\ Len(nv[2]) > 0
    IN  SelectSeq(nvs, kept)

\* the keys of a pair list in order of first appearance (dict insertion order)
RECURSIVE first_keys(_, _)
first_keys(pairs, have) ==
    IF pairs = <<>> THEN <<>>
    ELSE IF pairs[1][1] \in have THEN first_keys(Tail(pairs), have)
    ELSE <<pairs[1][1]>> \o first_keys(Tail(pairs), have \cup {pairs[1][1]})

\* the values of key k in a pair list, in order
values_of(pairs, k) ==
    LET mine(nv) == nv[1] = k
        sel == SelectSeq(pairs, mine)
    IN  [i \in 1..Len(sel) |-> sel[i][2]]

\* parse_qs(qs): a dict name -> list of values, as a list of items in insertion order
parse_qs(qs) ==
    LET pairs == parse_qsl(qs)
        keys == first_keys(pairs, {})
    IN  [i \in 1..Len(keys) |-> <<keys[i], values_of(pairs, keys[i])>>]

\* urlencode(d, doseq=True): k=v for every value of every key, joined by '&'
RECURSIVE flatten(_)
flatten(ss) == IF ss = <<>> THEN <<>> ELSE ss[1] \o flatten(Tail(ss))

\* quote_plus on one character: letters, digits and _.-~ are safe, ' ' becomes '+',
\* any other character of the model its %XX escape
quote_plus_char(c) ==
    CASE c = " " -> <<"+">>
      [] c = "#" -> <<"%", "2", "3">>
      [] c = "&" -> <<"%", "2", "6">>
      [] c = "/" -> <<"%", "2", "F">>
      [] c = ":" -> <<"%", "3", "A">>
      [] c = ";" -> <<"%", "3", "B">>
      [] c = "=" -> <<"%", "3", "D">>
      [] c = "?" -> <<"%", "3", "F">>
      [] c = "|" -> <<"%", "7", "C">>
      [] OTHER -> <<c>>

\* quote_plus(s)
quote_plus(s) == flatten([i \in 1..Len(s) |-> quote_plus_char(s[i])])

urlencode(items) ==
    LET one(it) == [j \in 1..Len(it[2]) |->
                       quote_plus(it[1]) \o <<"=">> \o quote_plus(it[2][j])]
        all == flatten([i \in 1..Len(items) |-> one(items[i])])
    IN  join(all, <<"&">>)

\* urlunsplit((scheme, netloc, url, query, fragment))
urlunsplit(scheme, netloc, path, query, fragment) ==
    LET u1 == IF netloc # <<>> \/
                 (scheme # <<>> /\ scheme \in uses_netloc /\ prefix(path, 2) # <<"/", "/">>)
              THEN <<"/", "/">> \o netloc \o
                   (IF path # <<>> /\ path[1] # "/" THEN <<"/">> \o path ELSE path)
              ELSE path
        u2 == IF scheme # <<>> THEN scheme \o <<":">> \o u1 ELSE u1
        u3 == IF query # <<>> THEN u2 \o <<"?">> \o query ELSE u2
    IN  IF fragment # <<>> THEN u3 \o <<"#">> \o fragment ELSE u3

\* urlunparse((scheme, netloc, url, params, query, fragment))
urlunparse(scheme, netloc, path, params, query, fragment) ==
    urlunsplit(scheme, netloc,
               IF params # <<>> THEN path \o <<";">> \o params ELSE path,
               query, fragment)

(***************************************************************************)
(* normalize_url: the three copies, and the fingerprints                   *)
(***************************************************************************)
WWW == <<"w", "w", "w", ".">>

tracking_params ==
    { <<"u", "t", "m", "_", "s", "o", "u", "r", "c", "e">>,
      <<"u", "t", "m", "_", "m", "e", "d", "i", "u", "m">>,
      <<"u", "t", "m", "_", "c", "a", "m", "p", "a", "i", "g", "n">>,
      <<"u", "t", "m", "_", "t", "e", "r", "m">>,
      <<"u", "t", "m", "_", "c", "o", "n", "t", "e", "n", "t">>,
      <<"f", "b", "c", "l", "i", "d">>,
      <<"g", "c", "l", "i", "d">>,
      <<"r", "e", "f">>,
      <<"s", "o", "u", "r", "c", "e">> }

\* {k: v for k, v in query_params.items() if k not in tracking_params}
filtered_params(query) ==
    LET not_tracking(it) == it[1] \notin tracking_params
    IN  SelectSeq(parse_qs(query), not_tracking)

\* the prefix tested on the netloc as given, before it is lowercased
domain_prefix_cut_cased(netloc) ==
    IF startswith(netloc, WWW) THEN lower(suffix(netloc, 5)) ELSE lower(netloc)

\* the domain of rss_collector / api_collector: lowercased, one leading 'www.' cut
domain_prefix_cut(netloc) ==
    LET domain == lower(netloc)
    IN  IF startswith(domain, WWW) THEN suffix(domain, 5) ELSE domain

\* the domain of scrape_collector: lowercased and, when it starts with 'www.',
\* EVERY occurrence of 'www.' replaced by ''
domain_replace(netloc) ==
    LET domain == lower(netloc)
    IN  IF startswith(domain, WWW) THEN remove_all(domain, WWW) ELSE domain

\* the body the three copies share, given parsed = urlparse(url) and the copy's domain
normalized(parsed, domain) ==
    urlunparse(parsed.scheme, domain, rstrip(parsed.path, "/"), parsed.params,
               urlencode(filtered_params(parsed.query)), <<>>)

\* from 'domain = parsed.netloc.lower()' on, with the domain of a slice
normalized_cut(parsed) == normalized(parsed, domain_prefix_cut(parsed.netloc))

\* the same with the domain of scrape_collector's replace
normalized_replace(parsed) == normalized(parsed, domain_replace(parsed.netloc))

\* rss_collector.normalize_url
rss_normalize_url(url) ==
    IF url = <<>> THEN <<>>
    ELSE normalized_cut(urlparse(url))

\* api_collector.normalize_url
api_normalize_url(url) ==
    IF url = <<>> THEN <<>>
    ELSE normalized_cut(urlparse(url))

\* scrape_collector.normalize_url
scrape_normalize_url(url) ==
    IF url = <<>> THEN <<>>
    ELSE normalized_replace(urlparse(url))

\* hashlib.sha256(s.encode()).hexdigest(): collision-free, so an injective tag of s
sha256(s) == <<"sha256", s>>

\* the hash of the URL as given
rss_get_url_hash_raw(url) == sha256(url)

\* get_url_hash of rss_collector, api_collector, scrape_collector, scholar_collector
rss_get_url_hash(url) == sha256(rss_normalize_url(url))

api_get_url_hash(url) == sha256(api_normalize_url(url))

scrape_get_url_hash(url) == sha256(scrape_normalize_url(url))

scholar_get_url_hash(url) == sha256(url)

\* the fingerprint taken of the whole published_at
get_content_hash_whole_date(title, published_at) ==
    sha256(strip(lower(title)) \o <<"|">> \o
           (IF published_at \in {<<>>, <<"None">>} THEN <<>> ELSE published_at))

\* get_content_hash(title, published_at): title.lower().strip() | published_at[:10],
\* '' for a published_at that is '' or None
get_content_hash(title, published_at) ==
    sha256(strip(lower(title)) \o <<"|">> \o
           (IF published_at \in {<<>>, <<"None">>} THEN <<>> ELSE prefix(published_at, 10)))

(***************************************************************************)
(* The data the sources can serve.  Every URL, title and date below is a   *)
(* concrete Python str; the sets of raw items are bounded samples that     *)
(* hold, for every rejection the collectors implement, an item that takes  *)
(* it: URLs that differ only in what normalize_url removes, titles that    *)
(* differ only in case and surrounding whitespace, dates of one day at     *)
(* different times, missing fields, unparseable dates.                     *)
(***************************************************************************)
URL_X == <<"h", "t", "t", "p", "s", ":", "/", "/", "a", ".", "i", "o", "/", "x">>

\* URL_X with another host case, a leading www., a trailing slash and utm_source
URL_X_TRACKED == <<"h", "t", "t", "p", "s", ":", "/", "/", "W", "W", "W", ".", "a", ".", "i", "o", "/", "x", "/", "?", "u", "t", "m", "_", "s", "o", "u", "r", "c", "e", "=", "f">>

URL_Y == <<"h", "t", "t", "p", "s", ":", "/", "/", "a", ".", "i", "o", "/", "y">>

\* differs from URL_Y by a fragment only
URL_Y_FRAGMENT == <<"h", "t", "t", "p", "s", ":", "/", "/", "a", ".", "i", "o", "/", "y", "#", "c">>

URL_Z == <<"h", "t", "t", "p", "s", ":", "/", "/", "a", ".", "i", "o", "/", "z">>

TITLE_A == <<"A", "I", " ", "B", "r", "i", "d", "g", "e", "s">>

\* TITLE_A in another case and with surrounding whitespace
TITLE_A_VARIANT == <<" ", "a", "i", " ", "b", "r", "i", "d", "g", "e", "s", " ">>

TITLE_B == <<"B", "I", "M", " ", "R", "o", "b", "o", "t", "s">>

TITLE_C == <<"S", "m", "a", "r", "t", " ", "R", "o", "a", "d", "s">>

\* shorter than the 10 characters extract_generic asks of a title
TITLE_SHORT == <<"A", "I", " ", "n", "e", "w", "s">>

DAY_1 == <<"2", "0", "2", "4", "-", "0", "1", "-", "0", "1">>

DAY_2 == <<"2", "0", "2", "4", "-", "0", "1", "-", "0", "6">>

\* the same day at two times, another day, and a string dateutil cannot parse
DATE_1_MORNING == DAY_1 \o <<"T", "1", "0", ":", "0", "0", ":", "0", "0", "Z">>

DATE_1_NIGHT == DAY_1 \o <<"T", "2", "3", ":", "3", "0", ":", "0", "0", "Z">>

DATE_2 == DAY_2 \o <<"T", "1", "0", ":", "0", "0", ":", "0", "0", "Z">>

DATE_GARBAGE == <<"n", "/", "a">>

\* the clock: datetime.utcnow() in its two renderings,
\* .isoformat() + 'Z' and .strftime('%Y-%m-%dT%H:%M:%SZ')
TODAY == <<"2", "0", "2", "4", "-", "0", "1", "-", "0", "7">>

NOW_ISOFORMAT == TODAY \o <<"T", "0", "8", ":", "0", "0", ":", "0", "0", ".", "0", "0", "0", "0", "0", "1", "Z">>

NOW_STRFTIME == TODAY \o <<"T", "0", "8", ":", "0", "0", ":", "0", "0", "Z">>

\* a str dateutil parses: the model's parseable dates are the timestamps already in
\* the form YYYY-MM-DDTHH:MM:SSZ, which strftime renders unchanged
is_parseable(s) == Len(s) = 20 /\ s[11] = "T" /\ s[20] = "Z"

\* Python's None, as the result of a function and as a JSON null
None == [none |-> TRUE]

NULL == <<"None">>

(***************************************************************************)
(* An article is the dict a collector yields, with the fields the          *)
(* deduplication reads: id, title, published_at, source_type, url,         *)
(* url_hash, content_hash, and for an API article full_text, the string    *)
(* of the response that reaches the output files unread.  (author,         *)
(* section, language, retrieved_at and source_name are carried along       *)
(* unread.)                                                                *)
(***************************************************************************)
\* url_hash[:32]
first32(h) == <<"sha256[:32]", h[2]>>

(***************************************************************************)
(* rss_collector                                                           *)
(***************************************************************************)
\* parse_date(date_str)
parse_date(date_str) ==
    IF date_str = <<>> THEN NOW_ISOFORMAT
    ELSE IF is_parseable(date_str) THEN date_str
    ELSE NOW_ISOFORMAT

\* extract_entry(entry, feed_name, feed_url); an entry has link, id, title, published
extract_entry(entry) ==
    LET link == IF entry.link # <<>> THEN entry.link ELSE entry.id
        published_at == parse_date(entry.published)
        url_hash == rss_get_url_hash(link)
    IN  IF link = <<>> THEN None
        ELSE IF entry.title = <<>> THEN None
        ELSE [id |-> first32(url_hash),
              title |-> strip(entry.title),
              published_at |-> published_at,
              source_type |-> "RSS",
              url |-> rss_normalize_url(link),
              url_hash |-> url_hash,
              content_hash |-> get_content_hash(entry.title, published_at)]

Entry(link, id, title, published) ==
    [link |-> link, id |-> id, title |-> title, published |-> published]

\* the entries a feed can hold
RSS_ENTRIES ==
    { Entry(URL_X, <<>>, TITLE_A, DATE_1_MORNING),
      Entry(URL_X_TRACKED, <<>>, TITLE_A, DATE_1_MORNING),
      Entry(URL_X_TRACKED, <<>>, TITLE_B, DATE_2),
      Entry(URL_Y, <<>>, TITLE_A_VARIANT, DATE_1_NIGHT),
      Entry(URL_Y_FRAGMENT, <<>>, TITLE_B, DATE_1_MORNING),
      Entry(URL_Z, <<>>, TITLE_A, DATE_2),
      Entry(<<>>, URL_Z, TITLE_C, DATE_GARBAGE),
      Entry(<<>>, <<>>, TITLE_B, DATE_1_MORNING),
      Entry(URL_Z, <<>>, <<>>, DATE_1_MORNING) }

\* the entries a feed of unchanging content can hold
RSS_STUB ==
    { Entry(URL_X, <<>>, TITLE_A, DATE_1_MORNING),
      Entry(URL_X_TRACKED, <<>>, TITLE_B, DATE_2),
      Entry(URL_Y_FRAGMENT, <<>>, TITLE_B, DATE_1_MORNING),
      Entry(<<>>, <<>>, TITLE_B, DATE_1_MORNING) }

\* extract_entry of every entry a feed can hold, computed once
EXTRACTED == [entry \in RSS_ENTRIES |-> extract_entry(entry)]

\* the body without the two seen_hashes.add
rss_entry_body_no_insert(entry, seen) ==
    LET article == EXTRACTED[entry]
    IN  IF article = None THEN [article |-> None, seen |-> seen]
        ELSE IF article.url_hash \in seen THEN [article |-> None, seen |-> seen]
        ELSE IF article.content_hash \in seen THEN [article |-> None, seen |-> seen]
        ELSE [article |-> article, seen |-> seen]

\* the body without 'if article['url_hash'] in seen_hashes: continue'
rss_entry_body_unchecked_url(entry, seen) ==
    LET article == EXTRACTED[entry]
    IN  IF article = None THEN [article |-> None, seen |-> seen]
        ELSE IF article.content_hash \in seen THEN [article |-> None, seen |-> seen]
        ELSE [article |-> article,
              seen |-> seen \cup {article.url_hash, article.content_hash}]

\* the body of collect_from_rss's loop over feed.entries for one entry, past the quota
\* check: the article it yields (None when the entry is skipped) and the ledger after it
rss_entry_body(entry, seen) ==
    LET article == EXTRACTED[entry]
    IN  IF article = None THEN [article |-> None, seen |-> seen]
        ELSE IF article.url_hash \in seen THEN [article |-> None, seen |-> seen]
        ELSE IF article.content_hash \in seen THEN [article |-> None, seen |-> seen]
        ELSE [article |-> article,
              seen |-> seen \cup {article.url_hash, article.content_hash}]

(***************************************************************************)
(* api_collector: collect_from_gnews, collect_from_newsapi and             *)
(* collect_from_guardian run the same statements on an item of the         *)
(* response (url / webUrl, title / headline, publishedAt /                 *)
(* webPublicationDate).                                                    *)
(***************************************************************************)
\* a key the response does not hold
MISSING == <<"missing">>

\* a lone UTF-16 surrogate, which json.loads takes from an escape such as "\ud83d"
\* of the response and str.encode('utf-8') rejects
SURROGATE == "U+D83D"

TEXT == <<"t", "e", "x", "t">>

TEXT_UNPAIRED == <<"t", "e", SURROGATE, "x", "t">>

Item(url, title, publishedAt) ==
    [url |-> url, title |-> title, publishedAt |-> publishedAt, content |-> TEXT,
     source |-> TEXT]

\* the items a response can hold
API_ITEMS ==
    { Item(URL_X, TITLE_A, DATE_1_MORNING),
      Item(URL_X_TRACKED, TITLE_B, DATE_2),
      Item(URL_Y, TITLE_A_VARIANT, DATE_1_NIGHT),
      [Item(URL_Y, TITLE_B, DATE_1_MORNING) EXCEPT !.content = TEXT_UNPAIRED],
      Item(URL_Z, TITLE_C, MISSING),
      Item(URL_Z, TITLE_A, NULL),
      Item(<<>>, TITLE_C, DATE_2),
      Item(URL_Z, NULL, DATE_2),
      [Item(URL_X, TITLE_C, DATE_2) EXCEPT !.source = NULL],
      Item(URL_Z, <<>>, DATE_2) }

\* the items a response of unchanging content can hold
API_STUB ==
    { Item(URL_X, TITLE_A, DATE_1_MORNING),
      Item(URL_X_TRACKED, TITLE_B, DATE_2),
      Item(URL_Y, TITLE_A_VARIANT, DATE_1_NIGHT),
      Item(URL_Z, TITLE_C, MISSING),
      Item(URL_Z, NULL, DATE_2) }

\* what the loop over the articles of one response computes from an item: the hash of
\* url, published_at (the key's default is the clock; a JSON null stays None, which
\* get_content_hash reads as ''), the content hash and the normalized url
api_item_fields(item) ==
    LET published_at == IF item.publishedAt = MISSING THEN NOW_ISOFORMAT
                        ELSE IF item.publishedAt = NULL THEN <<>>
                        ELSE item.publishedAt
    IN  [url_hash |-> api_get_url_hash(item.url),
         published_at |-> published_at,
         content_hash |-> get_content_hash(item.title, published_at),
         url |-> api_normalize_url(item.url)]

\* api_item_fields of every item a response can hold, computed once
ITEM_FIELDS == [item \in API_ITEMS |-> api_item_fields(item)]

\* the body without 'if content_hash in seen_hashes: continue'
api_item_body_unchecked_content(item, seen) ==
    LET f == ITEM_FIELDS[item]
        skip == [article |-> None, seen |-> seen, raised |-> FALSE]
    IN  IF item.url = <<>> THEN skip
        ELSE IF f.url_hash \in seen THEN skip
        ELSE IF item.title = NULL THEN [article |-> None, seen |-> seen, raised |-> TRUE]
        ELSE IF item.source = NULL
             THEN [article |-> None, seen |-> seen \cup {f.url_hash, f.content_hash},
                   raised |-> TRUE]
        ELSE [article |-> [id |-> first32(f.url_hash),
                           title |-> item.title,
                           published_at |-> f.published_at,
                           source_type |-> "API",
                           url |-> f.url,
                           full_text |-> item.content,
                           url_hash |-> f.url_hash,
                           content_hash |-> f.content_hash],
              seen |-> seen \cup {f.url_hash, f.content_hash},
              raised |-> FALSE]

\* the body with 'seen_hashes.add(content_hash)' left out
api_item_body_adds_url_only(item, seen) ==
    LET f == ITEM_FIELDS[item]
        skip == [article |-> None, seen |-> seen, raised |-> FALSE]
    IN  IF item.url = <<>> THEN skip
        ELSE IF f.url_hash \in seen THEN skip
        ELSE IF item.title = NULL THEN [article |-> None, seen |-> seen, raised |-> TRUE]
        ELSE IF f.content_hash \in seen THEN skip
        ELSE IF item.source = NULL
             THEN [article |-> None, seen |-> seen \cup {f.url_hash, f.content_hash},
                   raised |-> TRUE]
        ELSE [article |-> [id |-> first32(f.url_hash),
                           title |-> item.title,
                           published_at |-> f.published_at,
                           source_type |-> "API",
                           url |-> f.url,
                           full_text |-> item.content,
                           url_hash |-> f.url_hash,
                           content_hash |-> f.content_hash],
              seen |-> seen \cup {f.url_hash},
              raised |-> FALSE]

\* the body of the loop over the articles of one response for one item, past the quota
\* check.  raised: title.lower() on a null title raises, and so does, after the two
\* fingerprints are inserted, the dict display of the yield on a null it dereferences
\* (article.get('source', {}).get('name') in GNews and NewsAPI, fields.get('bodyText',
\* '')[:5000] in Guardian); the except clause around the whole query turns either into
\* 'continue' with the next query
api_item_body(item, seen) ==
    LET f == ITEM_FIELDS[item]
        skip == [article |-> None, seen |-> seen, raised |-> FALSE]
    IN  IF item.url = <<>> THEN skip
        ELSE IF f.url_hash \in seen THEN skip
        ELSE IF item.title = NULL THEN [article |-> None, seen |-> seen, raised |-> TRUE]
        ELSE IF f.content_hash \in seen THEN skip
        ELSE IF item.source = NULL
             THEN [article |-> None, seen |-> seen \cup {f.url_hash, f.content_hash},
                   raised |-> TRUE]
        ELSE [article |-> [id |-> first32(f.url_hash),
                           title |-> item.title,
                           published_at |-> f.published_at,
                           source_type |-> "API",
                           url |-> f.url,
                           full_text |-> item.content,
                           url_hash |-> f.url_hash,
                           content_hash |-> f.content_hash],
              seen |-> seen \cup {f.url_hash, f.content_hash},
              raised |-> FALSE]

(***************************************************************************)
(* scrape_collector.  A page is what requests.get and BeautifulSoup give   *)
(* for a URL: the HTTP status (0: the request raised, e.g. a timeout),     *)
(* whether an element carries a paywall class or id, the text of the h1 /  *)
(* og:title, the time / article:published_time and the length of the       *)
(* paragraphs of the article body.                                         *)
(***************************************************************************)
MIN_TITLE_LEN == 10

MIN_BODY_LEN == 200

Page(status, paywall, title, published, body_len) ==
    [status |-> status, paywall |-> paywall, title |-> title,
     published |-> published, body_len |-> body_len]

\* get_page(url): raise_for_status() raises on 4xx and 5xx, and any exception
\* makes get_page return (None, None)
get_page_ok(page) == page.status >= 200 /\ page.status < 400

\* what requests.get and raise_for_status() make of the status (0: no answer in time)
answer_of(status) ==
    IF status = 0 THEN "timeout"
    ELSE IF status = 429 THEN "http_429"
    ELSE IF status >= 500 THEN "http_5xx"
    ELSE IF status >= 400 THEN "http_4xx"
    ELSE "ok"

\* is_paywall_or_blocked(soup, response)
is_paywall_or_blocked(page) == page.status \in {402, 403} \/ page.paywall

\* extract_generic(soup, url): None, or the title and the raw date of the page
extract_generic(page) ==
    IF page.title = <<>> \/ Len(page.title) < MIN_TITLE_LEN THEN None
    ELSE IF page.body_len < MIN_BODY_LEN THEN None
    ELSE [title |-> page.title, published_at |-> page.published]

\* the article URLs a seed page can link to (or be), and the pages a site can serve
SCRAPE_URLS == {URL_X, URL_X_TRACKED, URL_Y}

BLOCKED_PAGES ==
    { Page(402, FALSE, <<>>, <<>>, 0),
      Page(403, FALSE, <<>>, <<>>, 0),
      Page(200, TRUE, TITLE_A, DATE_1_MORNING, 200) }

PAGES ==
    BLOCKED_PAGES \cup
    { Page(200, FALSE, TITLE_A, DATE_1_MORNING, 200),
      Page(200, FALSE, TITLE_A_VARIANT, DATE_1_NIGHT, 200),
      Page(200, FALSE, TITLE_B, DATE_2, 200),
      Page(200, FALSE, TITLE_C, <<>>, 200),
      Page(200, FALSE, TITLE_C, DATE_GARBAGE, 200),
      Page(200, FALSE, TITLE_SHORT, DATE_2, 200),
      Page(200, FALSE, TITLE_B, DATE_2, 199),
      Page(500, FALSE, <<>>, <<>>, 0),
      Page(0, FALSE, <<>>, <<>>, 0) }

\* what scrape_article computes from url and the page the site answers with: the
\* hash of url, extract_generic's result and, of an extracted page, published_at
\* (parse_date's rendering, the clock without a date) and the content hash
scrape_fields(url, page) ==
    LET result == extract_generic(page)
        published_at == IF result = None THEN <<>>
                        ELSE IF result.published_at = <<>> THEN NOW_STRFTIME
                        ELSE IF is_parseable(result.published_at) THEN result.published_at
                        ELSE NOW_ISOFORMAT
    IN  [url_hash |-> scrape_get_url_hash(url),
         result |-> result,
         published_at |-> published_at,
         content_hash |-> IF result = None THEN None
                          ELSE get_content_hash(result.title, published_at),
         url |-> scrape_normalize_url(url)]

\* scrape_fields of every URL and page of the model, computed once
VISIT_FIELDS == [url \in SCRAPE_URLS |-> [page \in PAGES |-> scrape_fields(url, page)]]

\* scrape_article with get_page(url) made before 'if url_hash in seen_hashes'
scrape_article_fetches_first(url, page, seen) ==
    LET f == VISIT_FIELDS[url][page]
        dropped == [article |-> None, seen |-> seen, fetched |-> TRUE]
    IN  IF f.url_hash \in seen THEN dropped
        ELSE IF ~get_page_ok(page) THEN dropped
        ELSE IF is_paywall_or_blocked(page) THEN dropped
        ELSE IF f.result = None THEN dropped
        ELSE IF f.content_hash \in seen THEN dropped
        ELSE [article |-> [id |-> first32(f.url_hash),
                           title |-> f.result.title,
                           published_at |-> f.published_at,
                           source_type |-> "SCRAPE",
                           url |-> f.url,
                           url_hash |-> f.url_hash,
                           content_hash |-> f.content_hash],
              seen |-> seen \cup {f.url_hash, f.content_hash},
              fetched |-> TRUE]

\* scrape_article with seen_hashes.add(url_hash) moved before the request
scrape_article_marks_first(url, page, seen) ==
    LET f == VISIT_FIELDS[url][page]
        marked == seen \cup {f.url_hash}
        dropped == [article |-> None, seen |-> marked, fetched |-> TRUE]
    IN  IF f.url_hash \in seen THEN [article |-> None, seen |-> seen, fetched |-> FALSE]
        ELSE IF ~get_page_ok(page) THEN dropped
        ELSE IF is_paywall_or_blocked(page) THEN dropped
        ELSE IF f.result = None THEN dropped
        ELSE IF f.content_hash \in seen THEN dropped
        ELSE [article |-> [id |-> first32(f.url_hash),
                           title |-> f.result.title,
                           published_at |-> f.published_at,
                           source_type |-> "SCRAPE",
                           url |-> f.url,
                           url_hash |-> f.url_hash,
                           content_hash |-> f.content_hash],
              seen |-> seen \cup {f.url_hash, f.content_hash},
              fetched |-> TRUE]

\* scrape_article without 'if content_hash in seen_hashes: return None'
scrape_article_unchecked_content(url, page, seen) ==
    LET f == VISIT_FIELDS[url][page]
        dropped == [article |-> None, seen |-> seen, fetched |-> TRUE]
    IN  IF f.url_hash \in seen THEN [article |-> None, seen |-> seen, fetched |-> FALSE]
        ELSE IF ~get_page_ok(page) THEN dropped
        ELSE IF is_paywall_or_blocked(page) THEN dropped
        ELSE IF f.result = None THEN dropped
        ELSE [article |-> [id |-> first32(f.url_hash),
                           title |-> f.result.title,
                           published_at |-> f.published_at,
                           source_type |-> "SCRAPE",
                           url |-> f.url,
                           url_hash |-> f.url_hash,
                           content_hash |-> f.content_hash],
              seen |-> seen \cup {f.url_hash, f.content_hash},
              fetched |-> TRUE]

\* scrape_article(url, seen_hashes) when the site answers with page: the article
\* returned (or None), the ledger after the call, and whether a request was made
scrape_article(url, page, seen) ==
    LET f == VISIT_FIELDS[url][page]
        dropped == [article |-> None, seen |-> seen, fetched |-> TRUE]
    IN  IF f.url_hash \in seen THEN [article |-> None, seen |-> seen, fetched |-> FALSE]
        ELSE IF ~get_page_ok(page) THEN dropped
        ELSE IF is_paywall_or_blocked(page) THEN dropped
        ELSE IF f.result = None THEN dropped
        ELSE IF f.content_hash \in seen THEN dropped
        ELSE [article |-> [id |-> first32(f.url_hash),
                           title |-> f.result.title,
                           published_at |-> f.published_at,
                           source_type |-> "SCRAPE",
                           url |-> f.url,
                           url_hash |-> f.url_hash,
                           content_hash |-> f.content_hash],
              seen |-> seen \cup {f.url_hash, f.content_hash},
              fetched |-> TRUE]

(***************************************************************************)
(* scholar_collector                                                       *)
(***************************************************************************)
SCHOLAR_SEARCH == <<"h", "t", "t", "p", "s", ":", "/", "/", "s", "c", "h", "o", "l", "a", "r", ".", "g", "o", "o", "g", "l", "e", ".", "c", "o", "m", "/", "s", "c", "h", "o", "l", "a", "r", "?", "q", "=">>

YEAR_START == <<"-", "0", "1", "-", "0", "1", "T", "0", "0", ":", "0", "0", ":", "0", "0", "Z">>

Result(link, resource, title, year) ==
    [link |-> link, resource |-> resource, title |-> title, year |-> year]

\* parse_paper(result, query): link, else the first resource's link, else the search
\* URL of the title; the hash is of the link as it is; published_at from the year
parse_paper(result) ==
    LET link == IF result.link # <<>> THEN result.link
                ELSE IF result.resource # <<>> THEN result.resource
                ELSE SCHOLAR_SEARCH \o result.title
        url_hash == scholar_get_url_hash(link)
    IN  [id |-> first32(url_hash),
         title |-> result.title,
         published_at |-> IF result.year # <<>> THEN result.year \o YEAR_START ELSE <<>>,
         source_type |-> "SCHOLAR",
         url |-> link,
         url_hash |-> url_hash]

YEAR_2024 == <<"2", "0", "2", "4">>

SCHOLAR_RESULTS ==
    { Result(URL_X, <<>>, TITLE_A, YEAR_2024),
      Result(URL_X_TRACKED, <<>>, TITLE_A, YEAR_2024),
      Result(<<>>, URL_Y, TITLE_B, <<>>),
      Result(<<>>, <<>>, TITLE_C, YEAR_2024),
      Result(URL_Z, <<>>, TITLE_C, <<>>) }

\* parse_paper of every result a search can return, computed once
PAPERS == [result \in SCHOLAR_RESULTS |-> parse_paper(result)]

\* the results a search of unchanging content can return
SCHOLAR_STUB ==
    { Result(URL_X, <<>>, TITLE_A, YEAR_2024),
      Result(URL_X_TRACKED, <<>>, TITLE_A, YEAR_2024),
      Result(<<>>, <<>>, TITLE_C, YEAR_2024) }

\* the loop body with the title and date fingerprint consulted as well
scholar_result_body_checks_content(result, seen) ==
    LET paper == PAPERS[result]
    IN  IF paper.url_hash \in seen THEN [article |-> None, seen |-> seen]
        ELSE IF get_content_hash(paper.title, paper.published_at) \in seen
        THEN [article |-> None, seen |-> seen]
        ELSE [article |-> paper, seen |-> seen \cup {paper.url_hash}]

\* the body of collect_from_scholar's loop over the results of one query
scholar_result_body(result, seen) ==
    LET paper == PAPERS[result]
    IN  IF paper.url_hash \in seen THEN [article |-> None, seen |-> seen]
        ELSE [article |-> paper, seen |-> seen \cup {paper.url_hash}]

(***************************************************************************)
(* Bounds of the model, and the constants of the program                   *)
(***************************************************************************)
\* target_total ranges over -1..MaxTarget, every quota over 0..MaxQuota
MaxTarget == 2

MaxQuota == 2

\* a feed, a response or a link list holds at most MaxEntries items
MaxEntries == 2

\* a collector visits at most MaxSources feeds, queries or seeds
MaxSources == 2

\* min(100, max_articles), min(50, remaining // 2), min(50, remaining)
GNEWS_CEILING == 100

BACKUP_CEILING == 50

\* len(GNEWS_QUERIES), and of the query lists of NewsAPI, Guardian and Scholar
GNEWS_QUERIES == 8

NEWSAPI_QUERIES == 4

GUARDIAN_QUERIES == 3

SCHOLAR_QUERIES == 15

Min(a, b) == IF a <= b THEN a ELSE b

BACKENDS == <<"gnews", "newsapi", "guardian">>

\* how many feeds, queries or seeds collector c iterates over
NumSources(c) ==
    CASE c = "gnews" -> Min(GNEWS_QUERIES, MaxSources)
      [] c = "newsapi" -> Min(NEWSAPI_QUERIES, MaxSources)
      [] c = "guardian" -> Min(GUARDIAN_QUERIES, MaxSources)
      [] c = "scholar" -> Min(SCHOLAR_QUERIES, MaxSources)
      [] OTHER -> MaxSources

(***************************************************************************)
(* State                                                                   *)
(***************************************************************************)
VARIABLES
    target_total,  \* the argument of build_raw_dataset
    rss_quota,     \* config['QUOTAS']['RSS']
    api_quota,     \* config['QUOTAS']['API']
    scrape_quota,  \* config['QUOTAS']['SCRAPE']
    all_articles,  \* the list the caller appends every yielded article to
    seen_hashes,   \* the ledger: one set, passed by reference to every collector
    pc,            \* where the caller of the collectors is
    gen,           \* the frame of the running generator collect_from_rss / _gnews /
                   \* _newsapi / _guardian / _scraping / _scholar
    apis,          \* the frame of the generator collect_from_apis
    calls,         \* call stub: the collectors invoked so far, with the max_articles
                   \* passed, len(all_articles) at the call, and whether the call
                   \* ended in an exception
    last_scrape,   \* request stub: the scrape_article call made by the last step
    net,           \* request stub: the answers to the HTTP requests the last step made
                   \* for one feed, query or page, and the delays it slept between them
    world,         \* the sources: live, or holding the data they served before
    plan,          \* the collector calls a direct caller (main, a test) still makes
    probe,         \* a direct call of one pure function: its arguments and its results
    outputs        \* the files data/raw/articles.csv and data/raw/articles.jsonl

vars == <<target_total, rss_quota, api_quota, scrape_quota, all_articles, seen_hashes,
          pc, gen, apis, calls, last_scrape, net, world, plan, probe, outputs>>

\* what no step of a collector assigns
config == <<target_total, rss_quota, api_quota, scrape_quota, probe, outputs>>

\* a file not written by this run; a CSV file has its header for first line
NoFile == [written |-> FALSE, header |-> <<>>, lines |-> <<>>]

NoOutputs == [csv |-> NoFile, jsonl |-> NoFile]

NoProbe == [fn |-> "none"]

IdleGen == [name |-> "idle"]

\* keyless: the backends called so far that returned at once for want of their API key
IdleApis == [stage |-> 0, max_articles |-> 0, collected |-> 0, keyless |-> {}]

NoCall == [url |-> <<>>, fetched |-> FALSE, blocked |-> FALSE]

\* a generator object just created for collector c: nothing of its body has run;
\* visited: the URLs of article_urls gone through, single: the seed is the article,
\* paper: the local of that name in collect_from_scholar
NewGen(c, max_articles) ==
    [name |-> c, max_articles |-> max_articles, collected |-> 0, src |-> 1, pos |-> 0,
     single |-> FALSE, visited |-> {}, paper |-> None]

Call(c, max_articles) ==
    [name |-> c, max_articles |-> max_articles, start |-> Len(all_articles),
     raised |-> FALSE]

\* end of a list of entries, items or links; outcome of the request for a feed, a
\* response or a seed page; presence of an API key in the environment
EOL == [eol |-> TRUE]

\* no request made
NoNet == [requests |-> <<>>, sleeps |-> <<>>]

\* how a request can fail: requests.exceptions.Timeout, or the HTTPError that
\* raise_for_status() raises on a 4xx, a 429 (rate limit) or a 5xx answer
ERRORS == {"timeout", "http_4xx", "http_429", "http_5xx"}

\* one request made and answered so, no delay slept
OneRequest(answer) == [requests |-> <<answer>>, sleeps |-> <<>>]

FETCH_OK == [failed |-> FALSE]

FETCH_FAILED == [failed |-> TRUE]

KEY_SET == [key |-> TRUE]

KEY_UNSET == [key |-> FALSE]

\* The sources are live (what a source serves is free at every request) or their
\* data is unchanged for the whole run, as with a stubbed network: then served
\* holds what every place (collector, source, position) served when first read.
LIVE == [live |-> TRUE, served |-> <<>>]

UNCHANGING == [live |-> FALSE, served |-> <<>>]

\* what the source serves at position pos of source src of collector c
Serve(c, src, pos, choices) ==
    IF <<c, src, pos>> \in DOMAIN world.served THEN {world.served[<<c, src, pos>>]}
    ELSE choices

\* the sources after that place has served item
Served(c, src, pos, item) ==
    IF world.live \/ <<c, src, pos>> \in DOMAIN world.served THEN world
    ELSE [world EXCEPT !.served = @ @@ (<<c, src, pos>> :> item)]

\* the items at position pos of a list: none after MaxEntries; a list of unchanging
\* content holds items of the smaller sample stub
Listed(pos, items, stub) ==
    IF pos > MaxEntries THEN {EOL}
    ELSE IF world.live THEN items \cup {EOL}
    ELSE stub \cup {EOL}

(***************************************************************************)
(* The caller's side of a generator: build_raw_dataset's three for loops,  *)
(* and list(collect_from_x(...)) of a direct caller                        *)
(***************************************************************************)
PhaseLoops == {"rss_loop", "api_loop", "scrape_loop"}

\* where the caller goes when the loop it is in ends
After(at) ==
    CASE at = "rss_loop" -> "api_check"
      [] at = "api_loop" -> "scrape_check"
      [] at = "scrape_loop" -> "done"
      [] OTHER -> "direct"

\* the check with > for >=
target_reached_late(articles) == Len(articles) > target_total

\* the check after all_articles.append(article): if len(all_articles) >= target_total: break
target_reached(articles) == Len(articles) >= target_total

\* the caller putting the article at the head of its list
Yield_at_head(article, g) ==
    /\ all_articles' = <<article>> \o all_articles
    /\ IF pc \in PhaseLoops /\ target_reached(all_articles')
       THEN /\ gen' = IdleGen
            /\ apis' = IdleApis
            /\ pc' = After(pc)
       ELSE /\ gen' = g
            /\ apis' = IF apis.stage = 0 THEN apis
                       ELSE [apis EXCEPT !.collected = @ + 1]
            /\ pc' = pc

\* A generator yields article and would go on as g: the caller appends it and, in
\* build_raw_dataset, breaks once the target is reached, which closes the generator;
\* otherwise the generator resumes (collect_from_apis counts the article too).
Yield(article, g) ==
    /\ all_articles' = Append(all_articles, article)
    /\ IF pc \in PhaseLoops /\ target_reached(all_articles')
       THEN /\ gen' = IdleGen
            /\ apis' = IdleApis
            /\ pc' = After(pc)
       ELSE /\ gen' = g
            /\ apis' = IF apis.stage = 0 THEN apis
                       ELSE [apis EXCEPT !.collected = @ + 1]
            /\ pc' = pc

\* the rest of one turn of 'for entry in feed.entries' once the body has given r:
\* the ledger is the body's, and the article, if any, is yielded
rss_entry_done(r) ==
    /\ seen_hashes' = r.seen
    /\ IF r.article = None
       THEN /\ gen' = [gen EXCEPT !.pos = @ + 1]
            /\ UNCHANGED <<all_articles, pc, apis>>
       ELSE Yield(r.article, [gen EXCEPT !.pos = @ + 1, !.collected = @ + 1])

\* the rest of one turn of a backend's loop over items once the body has given r:
\* an exception leaves the response for the next query
api_item_done(r) ==
    /\ seen_hashes' = r.seen
    /\ IF r.raised
       THEN /\ gen' = [gen EXCEPT !.src = @ + 1, !.pos = 0]
            /\ UNCHANGED <<all_articles, pc, apis>>
       ELSE IF r.article = None
       THEN /\ gen' = [gen EXCEPT !.pos = @ + 1]
            /\ UNCHANGED <<all_articles, pc, apis>>
       ELSE Yield(r.article, [gen EXCEPT !.pos = @ + 1, !.collected = @ + 1])

\* the rest of one turn of 'for link in links' (or of the seed tried as an article)
\* once scrape_article has given r; g is the generator going on without a yield
scrape_link_done(v, r, g) ==
    /\ seen_hashes' = r.seen
    /\ last_scrape' = [url |-> v.url, fetched |-> r.fetched,
                       blocked |-> r.fetched /\ v.page \in BLOCKED_PAGES]
    /\ net' = IF last_scrape'.fetched
              THEN OneRequest(answer_of(v.page.status))
              ELSE NoNet
    /\ IF r.article = None
       THEN gen' = g /\ UNCHANGED <<all_articles, pc, apis>>
       ELSE Yield(r.article, [g EXCEPT !.collected = @ + 1])

\* The running generator returns: a backend of collect_from_apis hands over to the
\* next stage of collect_from_apis, any other collector ends the caller's loop.
Return ==
    /\ gen' = IdleGen
    /\ IF apis.stage # 0
       THEN apis' = [apis EXCEPT !.stage = @ + 1] /\ pc' = pc
       ELSE apis' = apis /\ pc' = After(pc)

(***************************************************************************)
(* collect_from_rss                                                        *)
(***************************************************************************)
\* fetch_feed(url, timeout=30, retries=3)
RETRIES == 3

RECURSIVE fetch_attempts(_, _, _)
\* the loop sleeping one second after every failure
fetch_attempts_constant_delay(answers, attempt, made) ==
    IF attempt >= RETRIES THEN [failed |-> TRUE, net |-> made]
    ELSE LET answer == answers[attempt + 1]
             requested == [made EXCEPT !.requests = Append(@, answer)]
         IN  IF answer = "ok" THEN [failed |-> FALSE, net |-> requested]
             ELSE IF answer = "malformed" THEN [failed |-> TRUE, net |-> requested]
             ELSE fetch_attempts(answers, attempt + 1,
                                 [requested EXCEPT !.sleeps = Append(@, 1)])

\* 'for attempt in range(retries)' from attempt on, when the server answers the
\* k-th request with answers[k]: a feed is returned, or None at once when the feed
\* is malformed and has no entries; a Timeout and any other RequestException are
\* followed by time.sleep(2 ** attempt) and the next attempt
fetch_attempts(answers, attempt, made) ==
    IF attempt >= RETRIES THEN [failed |-> TRUE, net |-> made]
    ELSE LET answer == answers[attempt + 1]
             requested == [made EXCEPT !.requests = Append(@, answer)]
         IN  IF answer = "ok" THEN [failed |-> FALSE, net |-> requested]
             ELSE IF answer = "malformed" THEN [failed |-> TRUE, net |-> requested]
             ELSE fetch_attempts(answers, attempt + 1,
                                 [requested EXCEPT !.sleeps = Append(@, 2 ^ attempt)])

fetch_feed(answers) == fetch_attempts(answers, 0, NoNet)

\* what the server of a feed answers to successive requests: the same error up to
\* RETRIES times, and then a feed or a malformed document
FEED_ANSWERS ==
    {[k \in 1..RETRIES |-> IF k <= failures THEN error ELSE final] :
        failures \in 0..RETRIES, error \in ERRORS, final \in {"ok", "malformed"}}

FETCHES == {fetch_feed(answers) : answers \in FEED_ANSWERS}

\* top of 'for feed_config in feeds': the quota check, then fetch_feed
rss_feeds ==
    /\ gen.name = "rss" /\ gen.pos = 0
    /\ IF gen.src > NumSources("rss") \/ gen.collected >= gen.max_articles
       THEN Return /\ net' = NoNet /\ UNCHANGED <<all_articles, seen_hashes, world>>
       ELSE /\ \E feed \in Serve("rss", gen.src, 0, {FETCH_OK, FETCH_FAILED}) :
                 /\ world' = Served("rss", gen.src, 0, feed)
                 /\ \E fetched \in FETCHES :
                      fetched.failed = feed.failed /\ net' = fetched.net
                 /\ gen' = IF feed.failed THEN [gen EXCEPT !.src = @ + 1]
                           ELSE [gen EXCEPT !.pos = 1]
            /\ UNCHANGED <<all_articles, seen_hashes, pc, apis>>
    /\ last_scrape' = NoCall
    /\ UNCHANGED <<config, calls, plan>>

\* the entry loop without 'if collected >= max_articles: break'
rss_entries_past_quota ==
    /\ gen.name = "rss" /\ gen.pos > 0
    /\ \E entry \in Serve("rss", gen.src, gen.pos,
                           Listed(gen.pos, RSS_ENTRIES, RSS_STUB)) :
         /\ world' = Served("rss", gen.src, gen.pos, entry)
         /\ IF entry = EOL
            THEN /\ gen' = [gen EXCEPT !.src = @ + 1, !.pos = 0]
                 /\ UNCHANGED <<all_articles, seen_hashes, pc, apis>>
            ELSE rss_entry_done(rss_entry_body(entry, seen_hashes))
    /\ last_scrape' = NoCall
    /\ net' = NoNet
    /\ UNCHANGED <<config, calls, plan>>

\* one turn of 'for entry in feed.entries': the loop ends with the list, or at
\* 'if collected >= max_articles: break' whatever the next entry is
rss_entries ==
    /\ gen.name = "rss" /\ gen.pos > 0
    /\ \E entry \in IF gen.collected >= gen.max_articles THEN {EOL}
                     ELSE Serve("rss", gen.src, gen.pos,
                                Listed(gen.pos, RSS_ENTRIES, RSS_STUB)) :
         /\ world' = IF gen.collected >= gen.max_articles THEN world
                     ELSE Served("rss", gen.src, gen.pos, entry)
         /\ IF entry = EOL
            THEN /\ gen' = [gen EXCEPT !.src = @ + 1, !.pos = 0]
                 /\ UNCHANGED <<all_articles, seen_hashes, pc, apis>>
            ELSE rss_entry_done(rss_entry_body(entry, seen_hashes))
    /\ last_scrape' = NoCall
    /\ net' = NoNet
    /\ UNCHANGED <<config, calls, plan>>

\* the query loop leaving the API phase at the first failed request
api_queries_error_ends_phase ==
    /\ gen.name \in Range(BACKENDS) /\ gen.pos = 0
    /\ IF gen.src > NumSources(gen.name) \/ gen.collected >= gen.max_articles
       THEN Return /\ net' = NoNet /\ UNCHANGED <<all_articles, seen_hashes, world>>
       ELSE /\ \E response \in Serve(gen.name, gen.src, 0, {FETCH_OK, FETCH_FAILED}) :
                 /\ world' = Served(gen.name, gen.src, 0, response)
                 /\ \E answer \in IF response.failed THEN ERRORS ELSE {"ok"} :
                      net' = OneRequest(answer)
                 /\ gen' = IF response.failed THEN IdleGen ELSE [gen EXCEPT !.pos = 1]
                 /\ apis' = IF response.failed THEN IdleApis ELSE apis
                 /\ pc' = IF response.failed THEN After(pc) ELSE pc
            /\ UNCHANGED <<all_articles, seen_hashes>>
    /\ last_scrape' = NoCall
    /\ UNCHANGED <<config, calls, plan>>

(***************************************************************************)
(* collect_from_gnews, collect_from_newsapi, collect_from_guardian         *)
(***************************************************************************)
\* top of 'for query in ...': the quota check, then requests.get and response.json()
api_queries ==
    /\ gen.name \in Range(BACKENDS) /\ gen.pos = 0
    /\ IF gen.src > NumSources(gen.name) \/ gen.collected >= gen.max_articles
       THEN Return /\ net' = NoNet /\ UNCHANGED <<all_articles, seen_hashes, world>>
       ELSE /\ \E response \in Serve(gen.name, gen.src, 0, {FETCH_OK, FETCH_FAILED}) :
                 /\ world' = Served(gen.name, gen.src, 0, response)
                 /\ \E answer \in IF response.failed THEN ERRORS ELSE {"ok"} :
                      net' = OneRequest(answer)
                 /\ gen' = IF response.failed THEN [gen EXCEPT !.src = @ + 1]
                           ELSE [gen EXCEPT !.pos = 1]
            /\ UNCHANGED <<all_articles, seen_hashes, pc, apis>>
    /\ last_scrape' = NoCall
    /\ UNCHANGED <<config, calls, plan>>

\* one turn of 'for article in articles': the loop ends with the list, or at
\* 'if collected >= max_articles: break' whatever the next item is
api_items ==
    /\ gen.name \in Range(BACKENDS) /\ gen.pos > 0
    /\ \E item \in IF gen.collected >= gen.max_articles THEN {EOL}
                    ELSE Serve(gen.name, gen.src, gen.pos,
                               Listed(gen.pos, API_ITEMS, API_STUB)) :
         /\ world' = IF gen.collected >= gen.max_articles THEN world
                     ELSE Served(gen.name, gen.src, gen.pos, item)
         /\ IF item = EOL
            THEN /\ gen' = [gen EXCEPT !.src = @ + 1, !.pos = 0]
                 /\ UNCHANGED <<all_articles, seen_hashes, pc, apis>>
            ELSE api_item_done(api_item_body(item, seen_hashes))
    /\ last_scrape' = NoCall
    /\ net' = NoNet
    /\ UNCHANGED <<config, calls, plan>>

(***************************************************************************)
(* collect_from_apis                                                       *)
(***************************************************************************)
\* NewsAPI given all that remains
backend_quota_undivided(stage, max_articles, collected) ==
    CASE stage = 1 -> Min(GNEWS_CEILING, max_articles)
      [] OTHER -> Min(BACKUP_CEILING, max_articles - collected)

\* the quotas without their ceilings of 100 and 50
backend_quota_no_ceiling(stage, max_articles, collected) ==
    CASE stage = 1 -> max_articles
      [] stage = 2 -> (max_articles - collected) \div 2
      [] OTHER -> max_articles - collected

\* the quota collect_from_apis passes to the backend of its stage
backend_quota(stage, max_articles, collected) ==
    CASE stage = 1 -> Min(GNEWS_CEILING, max_articles)
      [] stage = 2 -> Min(BACKUP_CEILING, (max_articles - collected) \div 2)
      [] OTHER -> Min(BACKUP_CEILING, max_articles - collected)

\* the backend started whether or not its key is set
apis_next_key_ignored ==
    /\ apis.stage > 0 /\ gen = IdleGen
    /\ IF apis.stage > 3 \/ (apis.stage > 1 /\ apis.collected >= apis.max_articles)
       THEN /\ apis' = IdleApis
            /\ pc' = After(pc)
            /\ UNCHANGED <<gen, calls, world>>
       ELSE LET c == BACKENDS[apis.stage]
                quota == backend_quota(apis.stage, apis.max_articles, apis.collected)
            IN  /\ calls' = Append(calls, Call(c, quota))
                /\ \E env \in Serve(c, 0, 0, {KEY_SET, KEY_UNSET}) :
                     /\ world' = Served(c, 0, 0, env)
                     /\ gen' = NewGen(c, quota)
                     /\ apis' = IF env.key THEN apis
                                ELSE [apis EXCEPT !.keyless = @ \cup {c}]
                /\ pc' = pc
    /\ last_scrape' = NoCall
    /\ net' = NoNet
    /\ UNCHANGED <<config, all_articles, seen_hashes, plan>>

\* collect_from_apis between two backends: 'if collected >= max_articles: return'
\* before NewsAPI and Guardian, then the call of the next backend, whose first
\* statement returns when its API key is not in the environment
apis_next ==
    /\ apis.stage > 0 /\ gen = IdleGen
    /\ IF apis.stage > 3 \/ (apis.stage > 1 /\ apis.collected >= apis.max_articles)
       THEN /\ apis' = IdleApis
            /\ pc' = After(pc)
            /\ UNCHANGED <<gen, calls, world>>
       ELSE LET c == BACKENDS[apis.stage]
                quota == backend_quota(apis.stage, apis.max_articles, apis.collected)
            IN  /\ calls' = Append(calls, Call(c, quota))
                /\ \E env \in Serve(c, 0, 0, {KEY_SET, KEY_UNSET}) :
                     /\ world' = Served(c, 0, 0, env)
                     /\ IF env.key
                        THEN gen' = NewGen(c, quota) /\ apis' = apis
                        ELSE /\ gen' = gen
                             /\ apis' = [apis EXCEPT !.stage = @ + 1,
                                                     !.keyless = @ \cup {c}]
                /\ pc' = pc
    /\ last_scrape' = NoCall
    /\ net' = NoNet
    /\ UNCHANGED <<config, all_articles, seen_hashes, plan>>

(***************************************************************************)
(* collect_from_scraping                                                   *)
(***************************************************************************)
\* what get_page(seed_url) and the seed's max_depth give: no page, a seed that is
\* itself the article (max_depth == 0), or a page of links
SEED_FAILED == [failed |-> TRUE, max_depth |-> 0]

SEED_ARTICLE == [failed |-> FALSE, max_depth |-> 0]

SEED_LINKS == [failed |-> FALSE, max_depth |-> 1]

\* a URL to scrape and the page its site answers with
Visit(url, page) == [url |-> url, page |-> page]

\* the URLs and pages of sites of unchanging content
VISITS_STUB ==
    { Visit(URL_X, Page(200, FALSE, TITLE_A, DATE_1_MORNING, 200)),
      Visit(URL_X_TRACKED, Page(200, FALSE, TITLE_B, DATE_2, 200)),
      Visit(URL_Y, Page(200, FALSE, TITLE_A_VARIANT, DATE_1_NIGHT, 200)),
      Visit(URL_Y, Page(403, FALSE, <<>>, <<>>, 0)) }

\* the sites as they can answer: every page at one URL, and at the two other URLs
\* the pages with which a URL or a story comes a second time
VISITS ==
    {Visit(URL_X, page) : page \in PAGES} \cup VISITS_STUB \cup
    { Visit(URL_X_TRACKED, Page(200, FALSE, TITLE_A, DATE_1_MORNING, 200)),
      Visit(URL_Y, Page(200, FALSE, TITLE_A, DATE_1_MORNING, 200)) }

\* top of 'for seed_config in seeds': the quota check, then get_page(seed_url)
scrape_seeds ==
    /\ gen.name = "scrape" /\ gen.pos = 0
    /\ IF gen.src > NumSources("scrape") \/ gen.collected >= gen.max_articles
       THEN Return /\ net' = NoNet /\ UNCHANGED world
       ELSE /\ \E seed \in Serve("scrape", gen.src, 0,
                                 {SEED_FAILED, SEED_ARTICLE, SEED_LINKS}) :
                 /\ world' = Served("scrape", gen.src, 0, seed)
                 /\ \E answer \in IF seed.failed THEN ERRORS ELSE {"ok"} :
                      net' = OneRequest(answer)
                 /\ gen' = IF seed.failed THEN [gen EXCEPT !.src = @ + 1]
                           ELSE [gen EXCEPT !.pos = 1, !.single = (seed.max_depth = 0)]
            /\ UNCHANGED <<pc, apis>>
    /\ last_scrape' = NoCall
    /\ UNCHANGED <<config, all_articles, seen_hashes, calls, plan>>

\* the visits article_urls can hold next: discover_article_links collects the
\* links in a set, so no URL of the list comes twice
unvisited(visits) == {v \in visits : v = EOL \/ v.url \notin gen.visited}

\* scrape_article(seed_url) of a seed with max_depth == 0, or one turn of
\* 'for article_url in article_urls'
scrape_links ==
    /\ gen.name = "scrape" /\ gen.pos > 0
    /\ \E v \in IF gen.single
                 THEN Serve("scrape", gen.src, gen.pos,
                            Listed(gen.pos, VISITS, VISITS_STUB) \ {EOL})
                 ELSE IF gen.collected >= gen.max_articles THEN {EOL}
                 ELSE Serve("scrape", gen.src, gen.pos,
                            unvisited(Listed(gen.pos, VISITS, VISITS_STUB))) :
         /\ world' = IF ~gen.single /\ gen.collected >= gen.max_articles THEN world
                     ELSE Served("scrape", gen.src, gen.pos, v)
         /\ IF v = EOL
            THEN /\ gen' = [gen EXCEPT !.src = @ + 1, !.pos = 0, !.single = FALSE,
                                        !.visited = {}]
                 /\ last_scrape' = NoCall
                 /\ net' = NoNet
                 /\ UNCHANGED <<all_articles, seen_hashes, pc, apis>>
            ELSE scrape_link_done(v, scrape_article(v.url, v.page, seen_hashes),
                         IF gen.single
                         THEN [gen EXCEPT !.src = @ + 1, !.pos = 0, !.single = FALSE]
                         ELSE [gen EXCEPT !.pos = @ + 1, !.visited = @ \cup {v.url}])
    /\ UNCHANGED <<config, calls, plan>>

(***************************************************************************)
(* collect_from_scholar                                                    *)
(***************************************************************************)
\* top of 'for query in SCHOLAR_QUERIES': the quota check, then search_google_scholar,
\* which returns [] on any error
scholar_queries ==
    /\ gen.name = "scholar" /\ gen.pos = 0
    /\ IF gen.src > NumSources("scholar") \/ gen.collected >= gen.max_articles
       THEN Return
       ELSE gen' = [gen EXCEPT !.pos = 1] /\ UNCHANGED <<pc, apis>>
    /\ last_scrape' = NoCall
    /\ net' = NoNet
    /\ UNCHANGED <<config, all_articles, seen_hashes, calls, world, plan>>

\* one turn of 'for result in results': the loop ends with the list, or at
\* 'if collected >= max_articles: break' whatever the next result is
scholar_results ==
    /\ gen.name = "scholar" /\ gen.pos > 0
    /\ \E result \in IF gen.collected >= gen.max_articles THEN {EOL}
                      ELSE Serve("scholar", gen.src, gen.pos,
                                 Listed(gen.pos, SCHOLAR_RESULTS, SCHOLAR_STUB)) :
         /\ world' = IF gen.collected >= gen.max_articles THEN world
                     ELSE Served("scholar", gen.src, gen.pos, result)
         /\ IF result = EOL
            THEN /\ gen' = [gen EXCEPT !.src = @ + 1, !.pos = 0, !.paper = None]
                 /\ UNCHANGED <<all_articles, seen_hashes, pc, apis>>
            ELSE LET r == scholar_result_body(result, seen_hashes)
                 IN  /\ seen_hashes' = r.seen
                     /\ IF r.article = None
                        THEN /\ gen' = [gen EXCEPT !.pos = @ + 1, !.paper = PAPERS[result]]
                             /\ UNCHANGED <<all_articles, pc, apis>>
                        ELSE Yield(r.article,
                                   [gen EXCEPT !.pos = @ + 1, !.collected = @ + 1,
                                               !.paper = PAPERS[result]])
    /\ last_scrape' = NoCall
    /\ net' = NoNet
    /\ UNCHANGED <<config, calls, plan>>

(***************************************************************************)
(* build_raw_dataset                                                       *)
(***************************************************************************)
\* Phase 1: the RSS collector is called with the configured quota
rss_phase ==
    /\ pc = "rss_call"
    /\ gen' = NewGen("rss", rss_quota)
    /\ calls' = Append(calls, Call("rss", rss_quota))
    /\ pc' = "rss_loop"
    /\ UNCHANGED <<config, all_articles, seen_hashes, apis, last_scrape, net, world, plan>>

\* the phase's quota without the min with remaining
phase_target_unclamped(quota, articles) == quota

\* remaining = target_total - len(all_articles); min(quota, remaining)
phase_target(quota, articles) == Min(quota, target_total - Len(articles))

\* Phase 2, unless the target is reached
api_phase ==
    /\ pc = "api_check"
    /\ IF target_reached(all_articles)
       THEN pc' = "scrape_check" /\ UNCHANGED <<apis, calls>>
       ELSE LET api_target == phase_target(api_quota, all_articles)
            IN  /\ apis' = [stage |-> 1, max_articles |-> api_target, collected |-> 0,
                            keyless |-> {}]
                /\ calls' = Append(calls, Call("apis", api_target))
                /\ pc' = "api_loop"
    /\ UNCHANGED <<config, all_articles, seen_hashes, gen, last_scrape, net, world, plan>>

\* Phase 3, unless the target is reached
scrape_phase ==
    /\ pc = "scrape_check"
    /\ IF target_reached(all_articles)
       THEN pc' = "done" /\ UNCHANGED <<gen, calls>>
       ELSE LET scrape_target == phase_target(scrape_quota, all_articles)
            IN  /\ gen' = NewGen("scrape", scrape_target)
                /\ calls' = Append(calls, Call("scrape", scrape_target))
                /\ pc' = "scrape_loop"
    /\ UNCHANGED <<config, all_articles, seen_hashes, apis, last_scrape, net, world, plan>>

\* where a collector can raise: collect_from_rss before its first feed (load_config,
\* an RSS_FEEDS value that is no list; fetch_feed and extract_entry catch all the
\* rest), collect_from_scraping at the top of any seed (load_config, or
\* discover_article_links on the seed's page: urljoin and urlparse raise ValueError
\* on a malformed href). The API backends catch every exception themselves.
can_raise(g) ==
    \/ g.name = "rss" /\ g = NewGen("rss", g.max_articles)
    \/ g.name = "scrape" /\ g.pos = 0

\* the exception is not caught: the run ends where the collector raised
phase_raises_aborts ==
    /\ pc \in {"rss_loop", "scrape_loop"}
    /\ can_raise(gen)
    /\ gen' = IdleGen
    /\ pc' = "done"
    /\ calls' = [calls EXCEPT ![Len(calls)].raised = TRUE]
    /\ last_scrape' = NoCall
    /\ net' = NoNet
    /\ UNCHANGED <<config, all_articles, seen_hashes, apis, world, plan>>

\* 'except Exception' around a phase: the collector raises and the phase ends with
\* what it had appended
phase_raises ==
    /\ pc \in {"rss_loop", "scrape_loop"}
    /\ can_raise(gen)
    /\ gen' = IdleGen
    /\ pc' = After(pc)
    /\ calls' = [calls EXCEPT ![Len(calls)].raised = TRUE]
    /\ last_scrape' = NoCall
    /\ net' = NoNet
    /\ UNCHANGED <<config, all_articles, seen_hashes, apis, world, plan>>

\* str.encode('utf-8'), as open(..., encoding='utf-8').write applies it: it raises
\* UnicodeEncodeError on a lone surrogate
utf8_ok(s) == SURROGATE \notin Range(s)

\* save_to_csv and save_to_jsonl can write the article
writable(article) == "full_text" \in DOMAIN article => utf8_ok(article.full_text)

\* the column order of save_to_csv
columns ==
    <<"id", "title", "published_at", "source_name", "source_type", "url", "full_text",
      "author", "section", "language", "retrieved_at">>

\* the keys save_to_jsonl removes
INTERNAL_FIELDS == {"url_hash", "content_hash", "feed_url", "api_source"}

\* csv.DictWriter(f, fieldnames=columns, extrasaction='ignore').writerow(article):
\* one cell per column in the order of columns, '' for a key the article lacks
\* (restval) and for None; the records here hold of the eleven keys those the
\* collectors are followed on
writerow(article) ==
    [k \in 1..Len(columns) |->
        IF columns[k] \notin DOMAIN article THEN <<>>
        ELSE IF columns[k] = "source_type" THEN article.source_type
        ELSE IF article[columns[k]] = NULL THEN <<>>
        ELSE article[columns[k]]]

\* save_to_csv(articles, filepath): the header, then a row per article
save_to_csv(articles) ==
    [written |-> TRUE, header |-> columns,
     lines |-> [i \in 1..Len(articles) |-> writerow(articles[i])]]

\* clean_article of save_to_jsonl
clean_article(article) ==
    [k \in DOMAIN article \ INTERNAL_FIELDS |-> article[k]]

\* save_to_jsonl(articles, filepath): a line per article, json.dumps(clean_article)
save_to_jsonl(articles) ==
    [written |-> TRUE, header |-> <<>>,
     lines |-> [i \in 1..Len(articles) |-> clean_article(articles[i])]]

\* the articles before the first one that cannot be encoded
encodable(articles) ==
    SubSeq(articles, 1,
           MinOf({i \in 1..Len(articles) : ~writable(articles[i])} \cup {Len(articles) + 1}) - 1)

\* After the phases: print_stats, then 'if all_articles:' save_to_csv and
\* save_to_jsonl, outside any try, then 'return all_articles'. The row that cannot
\* be encoded raises in save_to_csv; 'with open' closes the file over the rows
\* written before it, and save_to_jsonl is not reached.
save_outputs ==
    /\ pc = "done"
    /\ IF all_articles = <<>>
       THEN pc' = "returned" /\ outputs' = outputs
       ELSE IF \A i \in 1..Len(all_articles) : writable(all_articles[i])
       THEN /\ pc' = "returned"
            /\ outputs' = [csv |-> save_to_csv(all_articles),
                           jsonl |-> save_to_jsonl(all_articles)]
       ELSE /\ pc' = "raised"
            /\ outputs' = [outputs EXCEPT !.csv = save_to_csv(encodable(all_articles))]
    /\ net' = NoNet
    /\ UNCHANGED <<target_total, rss_quota, api_quota, scrape_quota, probe, all_articles,
                   seen_hashes, gen, apis, calls, last_scrape, world, plan>>

(***************************************************************************)
(* A direct caller of the collectors: the main() of a collector module, or *)
(* a test, consumes list(collect_from_x(max_articles, seen_hashes)) for    *)
(* every call of plan in turn, all over one ledger.                        *)
(***************************************************************************)
PlannedCall(c, max_articles) == [name |-> c, max_articles |-> max_articles]

\* the next call of the plan; a backend of api_collector called on its own returns
\* at once when its API key is not in the environment
direct_call ==
    /\ pc = "direct" /\ plan # <<>>
    /\ LET c == Head(plan).name
           max_articles == Head(plan).max_articles
       IN  /\ calls' = Append(calls, Call(c, max_articles))
           /\ IF c = "apis"
              THEN /\ apis' = [stage |-> 1, max_articles |-> max_articles, collected |-> 0,
                            keyless |-> {}]
                   /\ pc' = "direct_loop"
                   /\ UNCHANGED <<gen, world>>
              ELSE \E env \in IF c \in Range(BACKENDS)
                               THEN Serve(c, 0, 0, {KEY_SET, KEY_UNSET}) ELSE {KEY_SET} :
                     /\ world' = IF c \in Range(BACKENDS) THEN Served(c, 0, 0, env) ELSE world
                     /\ gen' = IF env.key THEN NewGen(c, max_articles) ELSE IdleGen
                     /\ pc' = IF env.key THEN "direct_loop" ELSE "direct"
                     /\ apis' = apis
    /\ plan' = Tail(plan)
    /\ last_scrape' = NoCall
    /\ net' = NoNet
    /\ UNCHANGED <<config, all_articles, seen_hashes>>

Init ==
    /\ target_total \in (0 - 1)..MaxTarget
    /\ rss_quota \in 0..MaxQuota
    /\ api_quota \in 0..MaxQuota
    /\ scrape_quota \in 0..MaxQuota
    /\ all_articles = <<>>
    /\ seen_hashes = {}
    /\ pc = "rss_call"
    /\ gen = IdleGen
    /\ apis = IdleApis
    /\ calls = <<>>
    /\ last_scrape = NoCall
    /\ net = NoNet
    /\ outputs = NoOutputs
    /\ world = LIVE
    /\ plan = <<>>
    /\ probe = NoProbe

Next ==
    \/ rss_phase
    \/ api_phase
    \/ scrape_phase
    \/ phase_raises
    \/ save_outputs
    \/ rss_feeds
    \/ rss_entries
    \/ apis_next
    \/ api_queries
    \/ api_items
    \/ scrape_seeds
    \/ scrape_links

Spec == Init /\ [][Next]_vars

\* The run is one sequential Python process: whenever a step is possible it is
\* eventually taken (every request carries a timeout, every sleep is finite).
SpecFair == Spec /\ WF_vars(Next)

\* the four collectors, called one after the other over one ledger, on live sources
COLLECTORS == {"rss", "apis", "scrape", "scholar"}

InitDirect ==
    /\ target_total = 0
    /\ rss_quota = 0
    /\ api_quota = 0
    /\ scrape_quota = 0
    /\ all_articles = <<>>
    /\ seen_hashes = {}
    /\ pc = "direct"
    /\ gen = IdleGen
    /\ apis = IdleApis
    /\ calls = <<>>
    /\ last_scrape = NoCall
    /\ net = NoNet
    /\ outputs = NoOutputs
    /\ probe = NoProbe

InitShared ==
    /\ InitDirect
    /\ world = LIVE
    /\ plan \in {<<PlannedCall(c1, q1), PlannedCall(c2, 1)>> :
                    c1 \in COLLECTORS, c2 \in COLLECTORS, q1 \in 1..MaxQuota}

NextShared ==
    \/ direct_call
    \/ rss_feeds
    \/ rss_entries
    \/ apis_next
    \/ api_queries
    \/ api_items
    \/ scrape_seeds
    \/ scrape_links
    \/ scholar_queries
    \/ scholar_results

SpecShared == InitShared /\ [][NextShared]_vars

\* On sources whose data does not change: one collector called twice over one
\* ledger, or the RSS collector and then an API backend.
TWICE == {"rss", "gnews", "scrape"}

InitStubbed ==
    /\ InitDirect
    /\ world = UNCHANGING
    /\ plan \in {<<PlannedCall(c, q1), PlannedCall(c, q2)>> :
                    c \in TWICE, q1 \in 0..MaxQuota, q2 \in 0..MaxQuota}
               \cup {<<PlannedCall("rss", 1), PlannedCall(c, 1)>> : c \in Range(BACKENDS)}

NextStubbed ==
    \/ direct_call
    \/ rss_feeds
    \/ rss_entries
    \/ api_queries
    \/ api_items
    \/ scrape_seeds
    \/ scrape_links

SpecStubbed == InitStubbed /\ [][NextStubbed]_vars

\* One collector called once with any quota, negative ones included, on live
\* sources and an empty ledger.
GENERATORS == {"rss", "gnews", "newsapi", "guardian", "scrape", "scholar"}

InitQuota ==
    /\ InitDirect
    /\ world = LIVE
    /\ plan \in {<<PlannedCall(c, q)>> : c \in GENERATORS, q \in (0 - 1)..MaxQuota}

NextQuota ==
    \/ direct_call
    \/ rss_feeds
    \/ rss_entries
    \/ api_queries
    \/ api_items
    \/ scrape_seeds
    \/ scrape_links
    \/ scholar_queries
    \/ scholar_results

SpecQuota == InitQuota /\ [][NextQuota]_vars

(***************************************************************************)
(* The ledger a collector works on. It is called twice on unchanging       *)
(* sources, each time with seen_hashes=None, with the set object the       *)
(* caller keeps across its calls, or with a set() the caller has just      *)
(* created, as build_raw_dataset does on every call. seen_hashes is the    *)
(* set object bound to the collector's local name; probe.own tells whether *)
(* it is the collector's own object or the caller's, probe.caller holds    *)
(* the caller's object while the collector works on its own.               *)
(***************************************************************************)
LEDGER_ARGS == {"None", "kept_set", "new_set"}

LEDGER_COLLECTORS == {"rss", "scrape", "scholar"}

\* 'seen_hashes = seen_hashes or set()': an empty set passed in is replaced too
ledger_of_or_new(passed, caller_set) ==
    IF passed = "None" \/ caller_set = {} THEN [own |-> TRUE, set |-> {}]
    ELSE [own |-> FALSE, set |-> caller_set]

\* 'if seen_hashes is None: seen_hashes = set()', else the object passed
ledger_of(passed, caller_set) ==
    IF passed = "None" THEN [own |-> TRUE, set |-> {}]
    ELSE [own |-> FALSE, set |-> caller_set]

\* the caller's set object as it is now
caller_ledger == IF probe.own THEN probe.caller ELSE seen_hashes

InitLedger ==
    /\ target_total = 0
    /\ rss_quota = 0
    /\ api_quota = 0
    /\ scrape_quota = 0
    /\ all_articles = <<>>
    /\ seen_hashes = {}
    /\ pc = "direct"
    /\ gen = IdleGen
    /\ apis = IdleApis
    /\ calls = <<>>
    /\ last_scrape = NoCall
    /\ net = NoNet
    /\ outputs = NoOutputs
    /\ world = UNCHANGING
    /\ plan \in {<<PlannedCall(c, q), PlannedCall(c, q)>> :
                    c \in LEDGER_COLLECTORS, q \in 1..MaxQuota}
    /\ probe \in {[fn |-> "ledger", args |-> <<a1, a2>>, own |-> FALSE, caller |-> {}] :
                     a1 \in LEDGER_ARGS, a2 \in LEDGER_ARGS}

\* the caller's next call: collect_from_x(max_articles, seen_hashes=...)
ledger_call ==
    /\ pc = "direct" /\ plan # <<>>
    /\ probe.fn = "ledger"
    /\ LET passed == probe.args[Len(calls) + 1]
           kept == IF passed = "new_set" THEN {} ELSE caller_ledger
           ledger == ledger_of(passed, kept)
       IN  /\ probe' = [probe EXCEPT !.own = ledger.own, !.caller = kept]
           /\ seen_hashes' = ledger.set
    /\ calls' = Append(calls, Call(Head(plan).name, Head(plan).max_articles))
    /\ gen' = NewGen(Head(plan).name, Head(plan).max_articles)
    /\ pc' = "direct_loop"
    /\ plan' = Tail(plan)
    /\ last_scrape' = NoCall
    /\ net' = NoNet
    /\ UNCHANGED <<target_total, rss_quota, api_quota, scrape_quota, outputs,
                   all_articles, apis, world>>

NextLedger ==
    \/ ledger_call
    \/ rss_feeds
    \/ rss_entries
    \/ scrape_seeds
    \/ scrape_links
    \/ scholar_queries
    \/ scholar_results

SpecLedger == InitLedger /\ [][NextLedger]_vars

\* no collection run in progress
IdleRun ==
    /\ target_total = 0
    /\ rss_quota = 0
    /\ api_quota = 0
    /\ scrape_quota = 0
    /\ all_articles = <<>>
    /\ seen_hashes = {}
    /\ pc = "probe"
    /\ gen = IdleGen
    /\ apis = IdleApis
    /\ calls = <<>>
    /\ last_scrape = NoCall
    /\ net = NoNet
    /\ outputs = NoOutputs
    /\ world = LIVE
    /\ plan = <<>>

collection_idle ==
    <<all_articles, seen_hashes, pc, gen, apis, calls, last_scrape, net, world, plan,
      outputs>>

(***************************************************************************)
(* collect_from_apis with quotas up to its default, the backends reduced   *)
(* to the number of articles they yield                                    *)
(***************************************************************************)
ARTICLE_LIMITS == {0, 1, 2, 3, 99, 100, 101, 149, 150, 151, 199, 200, 201, 250}

\* how many articles a backend called with quota can yield: none, half, all
backend_yields(quota) == {n \in {0, quota \div 2, quota} : n >= 0}

InitApis ==
    /\ IdleRun
    /\ probe \in {[fn |-> "collect_from_apis", max_articles |-> m, stage |-> 1,
                    collected |-> 0, passed |-> <<>>] : m \in ARTICLE_LIMITS}

\* 'for article in collect_from_gnews(gnews_quota, seen_hashes)' and the two loops
\* after it: the quota is computed and passed, the articles are yielded and counted
apis_backend ==
    /\ probe.fn = "collect_from_apis"
    /\ probe.stage \in 1..3
    /\ ~(probe.stage > 1 /\ probe.collected >= probe.max_articles)
    /\ \E n \in backend_yields(backend_quota(probe.stage, probe.max_articles,
                                              probe.collected)) :
         probe' = [probe EXCEPT
                      !.stage = @ + 1,
                      !.collected = @ + n,
                      !.passed = Append(@, [name |-> BACKENDS[probe.stage],
                                            quota |-> backend_quota(probe.stage,
                                                                    probe.max_articles,
                                                                    probe.collected),
                                            collected |-> probe.collected])]
    /\ UNCHANGED <<target_total, rss_quota, api_quota, scrape_quota, collection_idle>>

\* 'if collected >= max_articles: return' before NewsAPI and Guardian, and the end
apis_return ==
    /\ probe.fn = "collect_from_apis"
    /\ probe.stage \in 2..4
    /\ probe.stage > 3 \/ probe.collected >= probe.max_articles
    /\ probe' = [probe EXCEPT !.stage = 0]
    /\ UNCHANGED <<target_total, rss_quota, api_quota, scrape_quota, collection_idle>>

NextApis ==
    \/ apis_backend
    \/ apis_return

SpecApis == InitApis /\ [][NextApis]_vars

(***************************************************************************)
(* build_raw_dataset at the scale of its defaults: the phases reduced to   *)
(* the number of candidates each collector yields, collect_from_apis as    *)
(* above                                                                   *)
(***************************************************************************)
DEFAULT_TARGET == 700

DEFAULT_RSS == 300

DEFAULT_API == 250

DEFAULT_SCRAPE == 150

\* the RSS quotas of the configuration: the default, none, a larger one
RSS_QUOTAS == {0, DEFAULT_RSS, 500}

\* len(all_articles) after a loop 'for article in collector: append; if
\* len(all_articles) >= target_total: break' over a collector that can yield n
appended(total, n, target) ==
    IF n = 0 THEN total ELSE Min(total + n, MaxOf({target, total + 1}))

InitTotals ==
    /\ IdleRun
    /\ probe \in {[fn |-> "build_raw_dataset", target |-> DEFAULT_TARGET,
                    quotas |-> [RSS |-> r, API |-> a, SCRAPE |-> DEFAULT_SCRAPE],
                    phase |-> "rss", total |-> 0,
                    max_articles |-> 0, stage |-> 0, collected |-> 0, passed |-> <<>>] :
                      r \in RSS_QUOTAS, a \in ARTICLE_LIMITS}

\* phase 1, and the test and the call of phase 2:
\* collect_from_apis(max_articles=min(api_quota, remaining), ...)
totals_rss ==
    /\ probe.fn = "build_raw_dataset" /\ probe.phase = "rss"
    /\ \E n \in backend_yields(probe.quotas.RSS) :
         LET total == appended(0, n, probe.target)
         IN  probe' = IF total >= probe.target
                      THEN [probe EXCEPT !.total = total, !.phase = "scrape"]
                      ELSE [probe EXCEPT
                              !.total = total,
                              !.phase = "api",
                              !.fn = "collect_from_apis",
                              !.stage = 1,
                              !.max_articles = Min(probe.quotas.API, probe.target - total)]
    /\ UNCHANGED <<target_total, rss_quota, api_quota, scrape_quota, collection_idle>>

\* the end of phase 2
totals_api ==
    /\ probe.fn = "collect_from_apis" /\ probe.stage = 0
    /\ "phase" \in DOMAIN probe /\ probe.phase = "api"
    /\ probe' = [probe EXCEPT !.fn = "build_raw_dataset", !.phase = "scrape",
                              !.total = appended(@, probe.collected, probe.target)]
    /\ UNCHANGED <<target_total, rss_quota, api_quota, scrape_quota, collection_idle>>

\* phase 3: collect_from_scraping(max_articles=min(scrape_quota, remaining), ...)
totals_scrape ==
    /\ probe.fn = "build_raw_dataset" /\ probe.phase = "scrape"
    /\ IF probe.total >= probe.target
       THEN probe' = [probe EXCEPT !.phase = "done"]
       ELSE \E n \in backend_yields(Min(probe.quotas.SCRAPE, probe.target - probe.total)) :
              probe' = [probe EXCEPT !.phase = "done",
                                     !.total = appended(@, n, probe.target)]
    /\ UNCHANGED <<target_total, rss_quota, api_quota, scrape_quota, collection_idle>>

NextTotals ==
    \/ totals_rss
    \/ apis_backend
    \/ apis_return
    \/ totals_api
    \/ totals_scrape

SpecTotals == InitTotals /\ [][NextTotals]_vars

(***************************************************************************)
(* process_article of llm_processor and of batch_processor, the model's    *)
(* answers drawn beforehand                                                *)
(***************************************************************************)
\* what model.generate_content and the handling of its text can come to: a JSON
\* object, text json.loads rejects, JSON that is no object (TypeError on
\* result['id'] = ...), and exceptions whose message names the failure
RESPONSES == {"object", "unparseable", "not_object", "http_429", "key_invalid",
              "timeout", "http_5xx"}

PROCESSORS == {"llm_processor", "batch_processor"}

MAX_RETRIES == 3

NoResult == [id |-> <<>>, is_relevant |-> FALSE, rejection_reason |-> "none"]

Rejected(article, rejection_reason) ==
    [id |-> article.id, is_relevant |-> FALSE, rejection_reason |-> rejection_reason]

\* llm_processor: "'429' in error_str or 'quota' in error_str.lower() or
\* 'API_KEY_INVALID' in error_str"; batch_processor: "attempt < 2"
retried(processor, response, attempt) ==
    IF processor = "llm_processor" THEN response \in {"http_429", "key_invalid"}
    ELSE attempt < 2

InitClassifier ==
    /\ IdleRun
    /\ probe \in {[fn |-> "process_article", processor |-> p,
                    article |-> [id |-> first32(sha256(url))],
                    responses |-> <<r1, r2, r3>>, attempt |-> 0, calls |-> <<>>,
                    sleeps |-> <<>>, result |-> NoResult] :
                       p \in PROCESSORS, url \in {URL_X, URL_Y},
                       r1 \in RESPONSES, r2 \in RESPONSES, r3 \in RESPONSES}

\* one pass of 'for attempt in range(max_retries)': the call of the model, then
\* the return of the parsed result or the except clause the failure falls in
process_article_attempt ==
    /\ probe.fn = "process_article"
    /\ probe.result = NoResult
    /\ probe.attempt < MAX_RETRIES
    /\ LET response == probe.responses[probe.attempt + 1]
           called == [probe EXCEPT !.calls = Append(@, response)]
       IN  probe' =
              IF response = "object"
              THEN [called EXCEPT !.result = [id |-> probe.article.id,
                                              is_relevant |-> TRUE,
                                              rejection_reason |-> "none"]]
              ELSE IF response = "unparseable"
              THEN [called EXCEPT !.result = Rejected(probe.article, "JSON error")]
              ELSE IF retried(probe.processor, response, probe.attempt)
              THEN [called EXCEPT !.sleeps = Append(@, (probe.attempt + 1) * 5),
                                  !.attempt = @ + 1]
              ELSE [called EXCEPT !.result = Rejected(probe.article, "API error")]
    /\ UNCHANGED <<target_total, rss_quota, api_quota, scrape_quota, collection_idle>>

\* the return after the loop: 'Max retries exceeded'
process_article_exhausted ==
    /\ probe.fn = "process_article"
    /\ probe.result = NoResult
    /\ probe.attempt = MAX_RETRIES
    /\ probe' = [probe EXCEPT !.result = Rejected(probe.article, "Max retries exceeded")]
    /\ UNCHANGED <<target_total, rss_quota, api_quota, scrape_quota, collection_idle>>

NextClassifier ==
    \/ process_article_attempt
    \/ process_article_exhausted

SpecClassifier == InitClassifier /\ [][NextClassifier]_vars

(***************************************************************************)
(* The classification runs over the store: main() of batch_processor on a  *)
(* slice [start:end] of the CSV rows, main() of llm_processor on all of    *)
(* them through process_batch and save_to_database. store is the database  *)
(* file, which outlives the runs.                                          *)
(***************************************************************************)
\* the rows of all_data.csv, every cell a string
CSV_ROWS == <<[id |-> "a"], [id |-> "b"], [id |-> "c"]>>

MaxRuns == 2

\* what the model answers to the up to three calls made for one article; beside
\* RESPONSES, a JSON object whose is_relevant is false
ANSWER_PLANS ==
    { <<"object", "object", "object">>,
      <<"object_irrelevant", "object", "object">>,
      <<"unparseable", "object", "object">>,
      <<"not_object", "object", "object">>,
      <<"http_429", "object", "object">>,
      <<"http_429", "http_429", "http_429">>,
      <<"timeout", "object_irrelevant", "object">>,
      <<"timeout", "http_5xx", "timeout">> }

\* process_article(model, article): the record returned when the model answers
\* the calls from attempt on with answers
RECURSIVE process_article(_, _, _, _)
process_article(processor, article, answers, attempt) ==
    IF attempt >= MAX_RETRIES THEN Rejected(article, "Max retries exceeded")
    ELSE IF answers[attempt + 1] = "object"
    THEN [id |-> article.id, is_relevant |-> TRUE, rejection_reason |-> "none"]
    ELSE IF answers[attempt + 1] = "object_irrelevant"
    THEN Rejected(article, "not relevant")
    ELSE IF answers[attempt + 1] = "unparseable" THEN Rejected(article, "JSON error")
    ELSE IF retried(processor, answers[attempt + 1], attempt)
    THEN process_article(processor, article, answers, attempt + 1)
    ELSE Rejected(article, "API error")

\* one turn of the loop of process_batch with the rejected branch taken only for
\* an answer of the model, not for a failure
placed_answers_only(lists, article, result) ==
    IF result.is_relevant
    THEN [lists EXCEPT !.accepted = Append(@, article.id)]
    ELSE IF result.rejection_reason = "not relevant"
    THEN [lists EXCEPT !.rejected = Append(@, [id |-> article.id,
                                               rejection_reason |-> result.rejection_reason])]
    ELSE lists

\* one turn of the loop of process_batch: 'if result.get('is_relevant', False):
\* accepted.append({**article, **result})', else rejected.append({...})
placed(lists, article, result) ==
    IF result.is_relevant
    THEN [lists EXCEPT !.accepted = Append(@, article.id)]
    ELSE [lists EXCEPT !.rejected = Append(@, [id |-> article.id,
                                               rejection_reason |-> result.rejection_reason])]

\* INSERT OR REPLACE INTO table ... of a row with primary key id
insert_or_replace(table, id, row) ==
    [k \in DOMAIN table \cup {id} |-> IF k = id THEN row ELSE table[k]]

RECURSIVE insert_all(_, _, _)
\* 'for article in accepted: cursor.execute(INSERT OR REPLACE ...)'
insert_all(table, ids, row) ==
    IF ids = <<>> THEN table
    ELSE insert_all(insert_or_replace(table, Head(ids), row), Tail(ids), row)

\* save_to_database(conn, accepted, rejected)
save_to_database(store, accepted, rejected, run) ==
    [articles |-> insert_all(store.articles, accepted, [run |-> run]),
     rejected |-> insert_all(store.rejected, [k \in 1..Len(rejected) |-> rejected[k].id],
                             [run |-> run])]

EmptyStore == [articles |-> <<>>, rejected |-> <<>>]

NoLists == [accepted |-> <<>>, rejected |-> <<>>]

InitStore ==
    /\ IdleRun
    /\ probe = [fn |-> "classification", phase |-> "idle", processor |-> "none",
                articles |-> <<>>, pos |-> 0, called |-> <<>>, lists |-> NoLists,
                store |-> EmptyStore, runs |-> 0]

\* main() up to its loop: create_database / init_db (CREATE TABLE IF NOT EXISTS),
\* load_articles(), and the slice of batch_processor
classification_main ==
    /\ probe.fn = "classification" /\ probe.phase # "loop"
    /\ probe.runs < MaxRuns
    /\ \E processor \in PROCESSORS :
       \E start \in 0..Len(CSV_ROWS) : \E end \in start..Len(CSV_ROWS) :
         /\ processor = "llm_processor" => start = 0 /\ end = Len(CSV_ROWS)
         /\ probe' = [probe EXCEPT
                        !.phase = "loop",
                        !.processor = processor,
                        !.articles = SubSeq(CSV_ROWS, start + 1, end),
                        !.pos = 0,
                        !.called = <<>>,
                        !.lists = NoLists,
                        !.runs = @ + 1]
    /\ UNCHANGED <<target_total, rss_quota, api_quota, scrape_quota, collection_idle>>

\* one turn of 'for i, article in enumerate(articles)': process_article, then in
\* process_batch the append to accepted or rejected, in the main of
\* batch_processor the INSERT OR REPLACE into articles or rejected and the commit
classification_turn ==
    /\ probe.fn = "classification" /\ probe.phase = "loop"
    /\ probe.pos < Len(probe.articles)
    /\ \E answers \in ANSWER_PLANS :
         LET article == probe.articles[probe.pos + 1]
             result == process_article(probe.processor, article, answers, 0)
             row == [run |-> probe.runs]
         IN  probe' = [probe EXCEPT
                         !.pos = @ + 1,
                         !.called = Append(@, article.id),
                         !.lists = placed(@, article, result),
                         !.store = IF probe.processor = "llm_processor" THEN @
                                   ELSE IF result.is_relevant
                                   THEN [@ EXCEPT !.articles =
                                                    insert_or_replace(@, article.id, row)]
                                   ELSE [@ EXCEPT !.rejected =
                                                    insert_or_replace(@, article.id, row)]]
    /\ UNCHANGED <<target_total, rss_quota, api_quota, scrape_quota, collection_idle>>

\* the end of the loop: process_batch returns accepted, rejected and the main of
\* llm_processor saves them
classification_end ==
    /\ probe.fn = "classification" /\ probe.phase = "loop"
    /\ probe.pos = Len(probe.articles)
    /\ probe' = [probe EXCEPT
                    !.phase = "returned",
                    !.store = IF probe.processor = "llm_processor"
                              THEN save_to_database(@, probe.lists.accepted,
                                                    probe.lists.rejected, probe.runs)
                              ELSE @]
    /\ UNCHANGED <<target_total, rss_quota, api_quota, scrape_quota, collection_idle>>

NextStore ==
    \/ classification_main
    \/ classification_turn
    \/ classification_end

SpecStore == InitStore /\ [][NextStore]_vars

(***************************************************************************)
(* collect_from_scraping on one seed, under a quota its links do not       *)
(* reach, an article URL reduced to a number and scrape_article to the     *)
(* visit                                                                   *)
(***************************************************************************)
SEED_URL == 0

\* max_links of the call in collect_from_scraping
MAX_LINKS == 40

\* how many different article URLs the seed page links to
LINK_COUNTS == {0, 1, 2, 39, 40, 41, 42}

MaxCopies == 2

\* the hrefs of the seed page that pass the tests of discover_article_links:
\* every one of the count URLs, copies times over
hrefs(count, copies) == [i \in 1..(count * copies) |-> ((i - 1) % count) + 1]

RECURSIVE ascending(_)
ascending(S) ==
    IF S = {} THEN <<>> ELSE <<MinOf(S)>> \o ascending(S \ {MinOf(S)})

RECURSIVE descending(_)
descending(S) ==
    IF S = {} THEN <<>> ELSE <<MaxOf(S)>> \o descending(S \ {MaxOf(S)})

\* list(links): the elements of the set in an order of the interpreter's choosing
list(S) == {ascending(S), descending(S)}

\* the list returned whole
discover_article_links_uncut(page_hrefs, max_links) == list(Range(page_hrefs))

\* discover_article_links(soup, base_url, max_links): links = set() filled with
\* the full URL of every href that passes, then list(links)[:max_links]
discover_article_links(page_hrefs, max_links) ==
    {SubSeq(l, 1, Min(max_links, Len(l))) : l \in list(Range(page_hrefs))}

InitScraping ==
    /\ IdleRun
    /\ probe \in {[fn |-> "collect_from_scraping", failed |-> f, max_depth |-> d,
                    hrefs |-> hrefs(n, c), at |-> "seed", discovered |-> FALSE,
                    article_urls |-> <<>>, visits |-> <<>>] :
                       f \in BOOLEAN, d \in 0..2, n \in LINK_COUNTS, c \in 1..MaxCopies}

\* get_page(seed_url); 'if not soup: continue'; 'if max_depth == 0:'
\* scrape_article(seed_url, seen_hashes) and continue; else discover_article_links
seed_page ==
    /\ probe.fn = "collect_from_scraping"
    /\ probe.at = "seed"
    /\ IF probe.failed
       THEN probe' = [probe EXCEPT !.at = "next_seed"]
       ELSE IF probe.max_depth = 0
       THEN probe' = [probe EXCEPT !.at = "next_seed", !.visits = <<SEED_URL>>]
       ELSE \E urls \in discover_article_links(probe.hrefs, MAX_LINKS) :
               probe' = [probe EXCEPT !.at = "links", !.discovered = TRUE,
                                      !.article_urls = urls]
    /\ UNCHANGED <<target_total, rss_quota, api_quota, scrape_quota, collection_idle>>

\* one turn of 'for article_url in article_urls': scrape_article(article_url, ...)
article_visit ==
    /\ probe.fn = "collect_from_scraping"
    /\ probe.at = "links"
    /\ Len(probe.visits) < Len(probe.article_urls)
    /\ probe' = [probe EXCEPT !.visits = Append(@, probe.article_urls[Len(@) + 1])]
    /\ UNCHANGED <<target_total, rss_quota, api_quota, scrape_quota, collection_idle>>

\* the end of 'for article_url in article_urls'
links_end ==
    /\ probe.fn = "collect_from_scraping"
    /\ probe.at = "links"
    /\ Len(probe.visits) = Len(probe.article_urls)
    /\ probe' = [probe EXCEPT !.at = "next_seed"]
    /\ UNCHANGED <<target_total, rss_quota, api_quota, scrape_quota, collection_idle>>

NextScraping ==
    \/ seed_page
    \/ article_visit
    \/ links_end

SpecScraping == InitScraping /\ [][NextScraping]_vars

(***************************************************************************)
(* get_content_hash called directly on two titles and dates                *)
(***************************************************************************)
TITLE_BAR == <<"A", "I", "|", "b">>

TITLE_AI == <<"A", "I">>

DATE_BAR == <<"b", "|">>

CONTENT_TITLES == {TITLE_A, TITLE_A_VARIANT, TITLE_B, TITLE_BAR, TITLE_AI}

CONTENT_DATES == {DATE_1_MORNING, DATE_1_NIGHT, DATE_2, DAY_1, DATE_BAR, <<>>, NULL}

InitContent ==
    /\ IdleRun
    /\ probe \in {[fn |-> "get_content_hash", titles |-> <<t1, t2>>, dates |-> <<d1, d2>>,
                    done |-> FALSE, out |-> <<>>] :
                       t1 \in CONTENT_TITLES, t2 \in CONTENT_TITLES,
                       d1 \in CONTENT_DATES, d2 \in CONTENT_DATES}

\* get_content_hash(t1, d1), get_content_hash(t2, d2)
get_content_hash_calls ==
    /\ probe.fn = "get_content_hash"
    /\ ~probe.done
    /\ probe' = [probe EXCEPT
                    !.done = TRUE,
                    !.out = [i \in 1..2 |-> get_content_hash(probe.titles[i], probe.dates[i])]]
    /\ UNCHANGED <<target_total, rss_quota, api_quota, scrape_quota, collection_idle>>

NextContent == get_content_hash_calls

SpecContent == InitContent /\ [][NextContent]_vars

(***************************************************************************)
(* The URL functions called directly                                       *)
(***************************************************************************)
\* str.upper()
upper(s) ==
    [i \in 1..Len(s) |->
        IF \E k \in 1..26 : LOWERCASE[k] = s[i]
        THEN UPPERCASE[CHOOSE k \in 1..26 : LOWERCASE[k] = s[i]]
        ELSE s[i]]

RECURSIVE repeat(_, _)
\* s * n
repeat(s, n) == IF n = 0 THEN <<>> ELSE s \o repeat(s, n - 1)

MaxWww == 2

MaxSlashes == 2

HTTPS_PREFIX == <<"h", "t", "t", "p", "s", ":", "/", "/">>

HOST == <<"a", ".", "i", "o">>

\* what two URLs of one page share: the path and the parameters that are kept
URL_BASES ==
    { [path |-> <<>>, query |-> <<>>],
      [path |-> <<"/", "p">>, query |-> <<"a", "=", "1">>],
      [path |-> <<"/", "p", ";">>, query |-> <<>>] }

\* how they may differ: 'www.' prefixes, the case of the host, trailing slashes
\* of the path, one tracking parameter
URL_VARIANTS ==
    [www : 0..MaxWww, upper : BOOLEAN, slashes : 0..MaxSlashes,
     tracking : tracking_params \cup {<<>>}]

PLAIN_VARIANTS == {v \in URL_VARIANTS : ~v.upper /\ v.slashes = 0 /\ v.tracking = <<>>}

query_of(base, v) ==
    LET tracked == IF v.tracking = <<>> THEN <<>> ELSE <<v.tracking \o <<"=", "f">>>>
        kept == IF base.query = <<>> THEN <<>> ELSE <<base.query>>
    IN  IF tracked \o kept = <<>> THEN <<>> ELSE <<"?">> \o join(tracked \o kept, <<"&">>)

url_of(base, v) ==
    LET host == repeat(WWW, v.www) \o HOST
    IN  HTTPS_PREFIX \o (IF v.upper THEN upper(host) ELSE host) \o base.path
              \o repeat(<<"/">>, v.slashes) \o query_of(base, v)

URL_COPIES == {"rss", "api", "scrape"}

normalize_url(copy, url) ==
    CASE copy = "rss" -> rss_normalize_url(url)
      [] copy = "api" -> api_normalize_url(url)
      [] OTHER -> scrape_normalize_url(url)

get_url_hash(copy, url) ==
    CASE copy = "rss" -> rss_get_url_hash(url)
      [] copy = "api" -> api_get_url_hash(url)
      [] OTHER -> scrape_get_url_hash(url)

\* two URLs of one page, about to be passed to one copy of one function
InitUrls ==
    /\ IdleRun
    /\ probe \in {[fn |-> fn, copy |-> copy, base |-> base, variants |-> <<v1, v2>>,
                   urls |-> <<url_of(base, v1), url_of(base, v2)>>, done |-> FALSE,
                   out |-> <<>>] :
                    fn \in {"normalize_url", "get_url_hash"}, copy \in URL_COPIES,
                    base \in URL_BASES, v1 \in URL_VARIANTS, v2 \in PLAIN_VARIANTS}

\* normalize_url(u1), normalize_url(u2)
normalize_url_calls ==
    /\ probe.fn = "normalize_url"
    /\ ~probe.done
    /\ probe' = [probe EXCEPT !.done = TRUE,
                              !.out = [i \in 1..2 |-> normalize_url(probe.copy, probe.urls[i])]]
    /\ UNCHANGED <<target_total, rss_quota, api_quota, scrape_quota, collection_idle>>

\* get_url_hash(u1), get_url_hash(u2)
get_url_hash_calls ==
    /\ probe.fn = "get_url_hash"
    /\ ~probe.done
    /\ probe' = [probe EXCEPT !.done = TRUE,
                              !.out = [i \in 1..2 |-> get_url_hash(probe.copy, probe.urls[i])]]
    /\ UNCHANGED <<target_total, rss_quota, api_quota, scrape_quota, collection_idle>>

NextUrls ==
    \/ normalize_url_calls
    \/ get_url_hash_calls

SpecUrls == InitUrls /\ [][NextUrls]_vars

(***************************************************************************)
(* Properties                                                              *)
(***************************************************************************)
\* the content fingerprint (title + day) of a yielded candidate; a Scholar candidate
\* carries none, so it is computed from its title and date
content_of(article) ==
    IF article.source_type = "SCHOLAR"
    THEN get_content_hash(article.title, article.published_at)
    ELSE article.content_hash

\* C1, as stated: in a run over one shared ledger no candidate yielded by any of the
\* four collectors has the url_hash or the content hash (title + day) of a candidate
\* yielded earlier in the run.
C1_AllFourUnique ==
    \A i, j \in 1..Len(all_articles) :
        i < j => /\ all_articles[i].url_hash # all_articles[j].url_hash
                 /\ content_of(all_articles[i]) # content_of(all_articles[j])

\* C1, amended: no candidate has the url_hash of an earlier candidate, whichever
\* collectors yielded the two; no RSS, API or Scrape candidate has the content_hash
\* of an earlier RSS, API or Scrape candidate.  (Scholar checks and records the
\* url_hash only.)
C1_UniqueFingerprints ==
    \A i, j \in 1..Len(all_articles) :
        i < j => /\ all_articles[i].url_hash # all_articles[j].url_hash
                 /\ (all_articles[i].source_type # "SCHOLAR" /\
                     all_articles[j].source_type # "SCHOLAR")
                        => all_articles[i].content_hash # all_articles[j].content_hash

\* a run in which a collector other than Scholar and then Scholar have yielded three
\* candidates over the one ledger
C1_Witness ==
    /\ Len(all_articles) = 3
    /\ all_articles[1].source_type # "SCHOLAR"
    /\ all_articles[3].source_type = "SCHOLAR"

\* the calls of the three phases' collectors that build_raw_dataset has made
PhaseCalls == {k \in 1..Len(calls) : calls[k].name \in {"rss", "apis", "scrape"}}

\* C2, as stated: build_raw_dataset returns at most target_total candidates (none
\* when target_total is not positive), whatever the quotas and the sources.
C2_AtMostTarget ==
    pc = "done" => Len(all_articles) <= MaxOf({target_total, 0})

\* C3: once the running total has reached target_total, collect_from_apis and
\* collect_from_scraping are not invoked: each is only ever invoked with fewer than
\* target_total candidates collected.
C3_PhaseSkipping ==
    \A k \in PhaseCalls :
        calls[k].name \in {"apis", "scrape"} => calls[k].start < target_total

\* the RSS phase alone reached a positive target and the run ended without another call
C3_Witness ==
    /\ pc = "done"
    /\ target_total >= 1
    /\ Len(all_articles) = target_total
    /\ Len(calls) = 1
    /\ calls[1].name = "rss"

\* C4: the API phase is invoked with min(API quota, T - c), c < T being the total the
\* RSS phase ended with, and the Scrape phase with min(Scrape quota, T - c'), c' < T
\* being the total the API phase ended with.
C4_LocalQuota ==
    \A k \in PhaseCalls :
        /\ calls[k].name = "apis" =>
              calls[k].max_articles = Min(api_quota, target_total - calls[k].start)
        /\ calls[k].name = "scrape" =>
              calls[k].max_articles = Min(scrape_quota, target_total - calls[k].start)

\* the RSS phase ended with c >= 1 candidates and the API phase was invoked with less
\* than its configured quota; the Scrape phase was invoked after it
C4_Witness ==
    \E k \in PhaseCalls :
        /\ calls[k].name = "apis"
        /\ calls[k].start >= 1
        /\ calls[k].max_articles < api_quota
        /\ \E n \in PhaseCalls : calls[n].name = "scrape" /\ calls[n].max_articles >= 1

\* C5, as stated: before every phase, the RSS phase included, the orchestrator skips
\* the phase when target_total - collected <= 0, so every collector it invokes is
\* invoked with a positive remainder, and for target_total <= 0 none is invoked and
\* the result is empty.
C5_CheckBeforeEveryPhase ==
    /\ \A k \in PhaseCalls : target_total - calls[k].start > 0
    /\ target_total <= 0 => calls = <<>> /\ all_articles = <<>>

\* C6, as stated: every phase, the RSS phase included, hands its collector the quota
\* min(configured quota of the phase, target_total - collected so far).
C6_EveryPhaseClamped ==
    \A k \in PhaseCalls :
        LET quota == CASE calls[k].name = "rss" -> rss_quota
                       [] calls[k].name = "apis" -> api_quota
                       [] OTHER -> scrape_quota
        IN  calls[k].max_articles = Min(quota, target_total - calls[k].start)

\* C10: when a scrape target answers 402 or 403 or its page carries a paywall marker,
\* the call leaves the ledger as it was and yields nothing, and a scrape_article call
\* on the same URL with the ledger as it is then makes the request again, whatever
\* the site answers.
C10_BlockedLeavesLedger ==
    [][last_scrape'.blocked =>
          /\ seen_hashes' = seen_hashes
          /\ all_articles' = all_articles
          /\ \A page \in PAGES :
                scrape_article(last_scrape'.url, page, seen_hashes').fetched]_vars

\* a blocked target met by a run that has yielded before and goes on scraping
C10_Witness ==
    /\ last_scrape.blocked
    /\ seen_hashes # {}
    /\ gen.name = "scrape"
    /\ gen.collected < gen.max_articles

\* the places of collector c that have served an entry, item or link
Read(c) == {p \in DOMAIN world.served : p[1] = c /\ p[3] >= 1 /\ world.served[p] # EOL}

\* the direct caller has made n calls and the last of them has returned
Returned(n) == pc = "direct" /\ Len(calls) = n /\ Len(plan) = 2 - n

NullTitleRead == \E p \in Read("gnews") : world.served[p].title = NULL

same_story(title_1, published_1, title_2, published_2) ==
    /\ strip(lower(title_1)) = strip(lower(title_2))
    /\ prefix(published_1, 10) = prefix(published_2, 10)

\* the RSS candidates yielded that have another URL and the title and day of item
rss_twins(item) ==
    {i \in 1..Len(all_articles) :
        /\ all_articles[i].source_type = "RSS"
        /\ all_articles[i].url # api_normalize_url(item.url)
        /\ same_story(all_articles[i].title, all_articles[i].published_at,
                      item.title, api_item_fields(item).published_at)}

\* C8: an item an API backend (GNews, NewsAPI, Guardian) meets after the RSS
\* collector yielded an article with a different URL, the same title up to case and
\* surrounding whitespace and the same day is not yielded.
C8_CrossCollectorContent ==
    \A p \in Read("gnews") \cup Read("newsapi") \cup Read("guardian") :
        LET item == world.served[p]
        IN  (item.title # NULL /\ rss_twins(item) # {})
                => \A j \in 1..Len(all_articles) :
                      ~(/\ all_articles[j].source_type = "API"
                        /\ all_articles[j].title = item.title
                        /\ all_articles[j].url_hash = api_get_url_hash(item.url))

\* the RSS collector yielded one article, then the Guardian backend met as its first
\* item one with another URL and that title and day, and returned without a candidate
C8_Witness ==
    /\ Returned(2)
    /\ calls[1].name = "rss" /\ calls[2].name = "guardian"
    /\ Len(all_articles) = 1
    /\ <<"guardian", 1, 1>> \in Read("guardian")
    /\ world.served[<<"guardian", 1, 1>>].title # NULL
    /\ rss_twins(world.served[<<"guardian", 1, 1>>]) = {1}

\* the places of the feeds' entries that extract_entry accepts, and the first of them
ValidRead == {p \in Read("rss") : EXTRACTED[world.served[p]] # None}

FirstValid ==
    CHOOSE p \in ValidRead :
        \A q \in ValidRead : p[2] < q[2] \/ (p[2] = q[2] /\ p[3] <= q[3])

\* C9: collect_from_rss with quota >= 1 and an empty ledger, on feeds whose valid
\* entries all have URLs that normalize to the same string, yields exactly one
\* candidate, that of the first valid entry.
C9_OneCandidatePerUrl ==
    (/\ Returned(1)
     /\ calls[1].name = "rss"
     /\ calls[1].max_articles >= 1
     /\ ValidRead # {}
     /\ \A p, q \in ValidRead :
           rss_normalize_url(world.served[p].link) = rss_normalize_url(world.served[q].link))
        => all_articles = <<extract_entry(world.served[FirstValid])>>

\* a call with quota 2 on a feed of two valid entries whose different links normalize
\* to one URL has returned
C9_Witness ==
    /\ Returned(1)
    /\ calls[1].name = "rss"
    /\ calls[1].max_articles >= 2
    /\ Cardinality(ValidRead) >= 2
    /\ \A p, q \in ValidRead :
          rss_normalize_url(world.served[p].link) = rss_normalize_url(world.served[q].link)
    /\ \E p, q \in ValidRead : world.served[p].link # world.served[q].link

\* the source_type of the candidates a phase's collector yields
phase_type(c) ==
    CASE c = "rss" -> "RSS"
      [] c = "apis" -> "API"
      [] OTHER -> "SCRAPE"

\* the calls of build_raw_dataset that ended in an exception
RaisedCalls == {k \in PhaseCalls : calls[k].raised}

C12_RunCompletes == <>(pc = "returned")

\* the candidate a step appends to the output
Accepted == all_articles'[Len(all_articles')]

\* C13: in the RSS, API and Scrape collectors a step yields a candidate only when
\* neither of its two fingerprints is in the ledger, inserting both in the same step,
\* and the ledger only ever changes by receiving two fingerprints at once, so that it
\* never holds only one of them between candidates.
C13_BothFingerprintsTogether ==
    [][/\ all_articles' # all_articles =>
             /\ all_articles' = Append(all_articles, Accepted)
             /\ Accepted.url_hash \notin seen_hashes
             /\ Accepted.content_hash \notin seen_hashes
             /\ seen_hashes' = seen_hashes \cup {Accepted.url_hash, Accepted.content_hash}
       /\ seen_hashes' # seen_hashes =>
             /\ seen_hashes \subseteq seen_hashes'
             /\ Cardinality(seen_hashes' \ seen_hashes) = 2]_vars

\* an API candidate was accepted after an RSS candidate: the ledger holds the four
\* fingerprints of the two
C13_Witness ==
    /\ Len(all_articles) = 2
    /\ all_articles[1].source_type = "RSS"
    /\ all_articles[2].source_type = "API"
    /\ seen_hashes = {all_articles[1].url_hash, all_articles[1].content_hash,
                      all_articles[2].url_hash, all_articles[2].content_hash}
    /\ Cardinality(seen_hashes) = 4

\* the two URLs passed to a probed URL function, and what it returned for them
Normalized == probe.fn = "normalize_url" /\ probe.done

WwwAtMost(n) == probe.variants[1].www <= n /\ probe.variants[2].www <= n

OneSlashFewer ==
    url_of(probe.base, [probe.variants[1] EXCEPT !.slashes = IF @ = 0 THEN 0 ELSE @ - 1])

\* C15: normalize_url strips exactly one trailing slash of the path; the slashes
\* before it are preserved (checked on lowercase URLs without 'www.' and
\* tracking parameters, which normalisation otherwise returns as given).
C15_StripsOneTrailingSlash ==
    /\ Normalized
    /\ probe.variants[1].www = 0
    /\ ~probe.variants[1].upper
    /\ probe.variants[1].tracking = <<>>
    /\ ";" \notin Range(probe.base.path)
    => probe.out[1] = OneSlashFewer

Hashed == probe.fn = "get_url_hash" /\ probe.done

\* C16: get_url_hash is a function of its argument, and the hashes of two URLs
\* differ exactly when their normalised forms differ.
C16_HashDiffersIffNormalizedDiffers ==
    Hashed =>
        /\ \A i \in 1..2 : probe.out[i] = get_url_hash(probe.copy, probe.urls[i])
        /\ probe.out[1] # probe.out[2]
           <=> normalize_url(probe.copy, probe.urls[1]) # normalize_url(probe.copy, probe.urls[2])

C16_Witness ==
    /\ Hashed
    /\ probe.copy = "rss"
    /\ probe.urls[1] # probe.urls[2]
    /\ probe.variants[1].www = 1
    /\ probe.variants[1].tracking # <<>>
    /\ probe.variants[2].www = 0
    /\ probe.out[1] = probe.out[2]
    /\ probe.out[1] = sha256(probe.urls[2])

\* the place of a phase in the run
phase_rank(source_type) ==
    CASE source_type = "RSS" -> 1
      [] source_type = "API" -> 2
      [] OTHER -> 3

\* the place of the phase whose loop the run is in
loop_rank(at) ==
    CASE at = "rss_loop" -> 1
      [] at = "api_loop" -> 2
      [] OTHER -> 3

\* C17: the list build_raw_dataset returns is the concatenation, in phase order, of
\* what the phases yielded: every step that changes the list appends one candidate
\* at its end, no RSS candidate follows an API or Scrape candidate and no API
\* candidate follows a Scrape candidate, and the returned list is that list.
C17_PhaseOrderConcatenation ==
    [][/\ all_articles' # all_articles =>
             /\ Len(all_articles') = Len(all_articles) + 1
             /\ SubSeq(all_articles', 1, Len(all_articles)) = all_articles
             /\ phase_rank(all_articles'[Len(all_articles')].source_type) = loop_rank(pc)
       /\ \A i, j \in 1..Len(all_articles') :
             i < j => phase_rank(all_articles'[i].source_type)
                        <= phase_rank(all_articles'[j].source_type)
       /\ pc' = "returned" => all_articles' = all_articles]_vars

C17_Witness ==
    /\ pc = "returned"
    /\ Len(all_articles) = 2
    /\ all_articles[1].source_type = "API"
    /\ all_articles[2].source_type = "SCRAPE"

\* a step of collect_from_rss that called fetch_feed
FeedFetched == gen.name = "rss" /\ gen.pos = 0 /\ net'.requests # <<>>

\* C18: fetch_feed asks again after a timeout or a request error, sleeping 1, 2
\* and 4 seconds after the first, second and third failure, and makes at most 3
\* attempts; when every attempt failed no feed is returned, and collect_from_rss
\* yields nothing for the feed and goes on with the next feed.
C18_FetchFeedRetries ==
    [][FeedFetched =>
         LET requests == net'.requests
             sleeps == net'.sleeps
             n == Len(requests)
         IN  /\ n <= 3
             /\ \A k \in 1..n : requests[k] \in ERRORS => (k < n \/ n = 3)
             /\ \A k \in 1..(n - 1) : requests[k] \in ERRORS
             /\ Len(sleeps) = Cardinality({k \in 1..n : requests[k] \in ERRORS})
             /\ \A k \in 1..Len(sleeps) : sleeps[k] = IF k = 1 THEN 1 ELSE 2 * sleeps[k - 1]
             /\ requests[n] # "ok" =>
                   /\ gen' = [gen EXCEPT !.src = @ + 1]
                   /\ all_articles' = all_articles
                   /\ seen_hashes' = seen_hashes
                   /\ pc' = pc
             /\ requests[n] = "ok" => gen' = [gen EXCEPT !.pos = 1]]_vars

C18_Witness ==
    /\ gen.name = "rss"
    /\ gen.src = 2
    /\ gen.pos = 0
    /\ net.requests = <<"timeout", "timeout", "timeout">>
    /\ net.sleeps = <<1, 2, 4>>
    /\ pc = "rss_loop"

\* a step at the top of a collector's loop over its feeds, queries or seeds that
\* made a request for the source
SourceRequested == gen.name # "idle" /\ gen.pos = 0 /\ net'.requests # <<>>

\* the answers that asking again cannot change: a malformed feed without entries,
\* an HTTP 4xx status other than 429
PERMANENT == {"malformed", "http_4xx"}

\* the answers that asking again can change: no answer in time, a 5xx status, 429
TRANSIENT == {"timeout", "http_5xx", "http_429"}

\* C19: a source that answers with a permanent error is skipped at once: exactly
\* one request is made for it and no delay is slept.
C19_PermanentErrorNotRetried ==
    [][SourceRequested /\ net'.requests[1] \in PERMANENT =>
         /\ Len(net'.requests) = 1
         /\ net'.sleeps = <<>>
         /\ gen' = [gen EXCEPT !.src = @ + 1]]_vars

\* C20: a feed, query or seed of any collector that answers with a transient
\* error is asked again after a delay, up to a fixed number of attempts, before it
\* is skipped; the collector's loop and the run go on.
C20_TransientErrorRetried ==
    [][SourceRequested /\ net'.requests[1] \in TRANSIENT =>
         /\ Len(net'.requests) >= 2
         /\ Len(net'.requests) <= RETRIES
         /\ net'.sleeps # <<>>
         /\ gen'.name = gen.name
         /\ pc' = pc]_vars

\* the step called an API backend whose key is not in the environment
KeylessCall == apis'.keyless # apis.keyless /\ apis'.keyless # {}

\* len(all_articles) at the call of collect_from_apis of the running phase
ApiPhaseStart == calls[CHOOSE k \in 1..Len(calls) : calls[k].name = "apis"].start

\* C21: an API backend whose key is absent makes no request, yields nothing and
\* raises nothing; collect_from_apis goes on to the next backend and the run to
\* the Scrape check, so with no key at all the API phase adds no candidate.
C21_AbsentCredentialSkipsBackend ==
    [][/\ KeylessCall =>
             /\ calls' = Append(calls, Call(BACKENDS[apis.stage], calls'[Len(calls')].max_articles))
             /\ net' = NoNet
             /\ all_articles' = all_articles
             /\ seen_hashes' = seen_hashes
             /\ gen' = IdleGen
             /\ apis'.stage = apis.stage + 1
             /\ pc' = pc
       /\ pc = "api_loop" /\ pc' # pc =>
             /\ pc' = "scrape_check"
             /\ apis.keyless = Range(BACKENDS) =>
                   /\ Len(all_articles') = ApiPhaseStart
                   /\ \A i \in 1..Len(all_articles') : all_articles'[i].source_type # "API"]_vars

C21_Witness ==
    /\ pc = "api_loop"
    /\ apis.stage = 4
    /\ apis.keyless = Range(BACKENDS)
    /\ Len(calls) = 5
    /\ calls[3].max_articles >= 1
    /\ net = NoNet
    /\ Len(all_articles) = 1
    /\ all_articles[1].source_type = "RSS"

\* a step of collect_from_gnews / _newsapi / _guardian
BackendStep == gen.name \in Range(BACKENDS)

\* C22: an HTTP error, or an error raised while the items of a response are
\* handled, ends the work on that query only: the candidates yielded so far stay,
\* the collector goes on with its next query, and when it has no query left
\* collect_from_apis goes on to the next backend.
C22_QueryErrorContinues ==
    [][BackendStep =>
         /\ SubSeq(all_articles', 1, Len(all_articles)) = all_articles
         /\ seen_hashes \subseteq seen_hashes'
         /\ (net'.requests # <<>> /\ net'.requests[1] \in ERRORS) =>
               /\ gen' = [gen EXCEPT !.src = @ + 1]
               /\ all_articles' = all_articles
               /\ apis' = apis
               /\ pc' = pc
         /\ (gen.pos > 0 /\ gen'.name = gen.name /\ gen'.pos = 0) =>
               /\ gen' = [gen EXCEPT !.src = @ + 1, !.pos = 0]
               /\ all_articles' = all_articles
               /\ apis' = apis
               /\ pc' = pc
         /\ gen'.name \in {gen.name, "idle"}
         /\ (gen'.name = "idle" /\ pc' = pc) =>
               /\ gen.src > NumSources(gen.name) \/ gen.collected >= gen.max_articles
               /\ apis' = [apis EXCEPT !.stage = @ + 1]
         /\ pc' # pc => /\ pc' = After(pc)
                        /\ target_reached(all_articles')]_vars

C22_Witness ==
    /\ pc = "api_loop"
    /\ gen.name = "gnews"
    /\ gen.src = 3
    /\ gen.pos = 0
    /\ gen.collected = 1
    /\ net = OneRequest("http_5xx")
    /\ Len(all_articles) = 1
    /\ all_articles[1].source_type = "API"

\* C23: every candidate a collector yields has a non-empty title (an item without
\* a title is discarded, not yielded).
C23_TitlesNonEmpty ==
    \A i \in 1..Len(all_articles) : all_articles[i].title \notin {<<>>, NULL}

\* what the one call of the direct caller has yielded so far
Yielded == Len(all_articles) - calls[1].start

ApisProbed == probe.fn = "collect_from_apis"

\* C25: collect_from_apis calls GNews, NewsAPI and Guardian in that order, passes
\* min(100, max_articles) to GNews, min(50, remaining div 2) to NewsAPI and
\* min(50, remaining) to Guardian, remaining being max_articles less what the
\* earlier backends yielded, and yields no more than max_articles in all.
C25_ApiQuotasWithinMax ==
    ApisProbed =>
        LET passed == probe.passed
            remaining(k) == probe.max_articles - passed[k].collected
        IN  /\ \A k \in 1..Len(passed) : passed[k].name = <<"gnews", "newsapi", "guardian">>[k]
            /\ Len(passed) >= 1 =>
                  passed[1].quota = IF probe.max_articles < 100 THEN probe.max_articles ELSE 100
            /\ Len(passed) >= 2 =>
                  /\ passed[2].quota = IF remaining(2) \div 2 < 50 THEN remaining(2) \div 2 ELSE 50
                  /\ remaining(2) > 0
            /\ Len(passed) >= 3 =>
                  /\ passed[3].quota = IF remaining(3) < 50 THEN remaining(3) ELSE 50
                  /\ remaining(3) > 0
            /\ probe.collected <= probe.max_articles

C25_Witness ==
    /\ ApisProbed
    /\ probe.stage = 0
    /\ probe.max_articles = 250
    /\ probe.passed = <<[name |-> "gnews", quota |-> 100, collected |-> 0],
                        [name |-> "newsapi", quota |-> 50, collected |-> 100],
                        [name |-> "guardian", quota |-> 50, collected |-> 150]>>
    /\ probe.collected = 200

\* the URLs the items of the sources carry; a Scholar result without a link
\* carries the search URL of its title
ITEM_URLS ==
    {URL_X, URL_X_TRACKED, URL_Y, URL_Y_FRAGMENT, URL_Z}
        \cup {SCHOLAR_SEARCH \o result.title : result \in SCHOLAR_RESULTS}

\* the normalized form of every item URL, computed once
NORMALIZED == [url \in ITEM_URLS |-> rss_normalize_url(url)]

\* C26: every candidate a collector yielded has for url the normalized form of
\* its item's URL, for url_hash the SHA-256 of that normalized form, and for id
\* the first 32 hex characters of the url_hash.
C26_IdAndHashOfNormalizedUrl ==
    \A i \in 1..Len(all_articles) :
        /\ all_articles[i].id = first32(all_articles[i].url_hash)
        /\ \E url \in ITEM_URLS :
              /\ all_articles[i].url = NORMALIZED[url]
              /\ all_articles[i].url_hash = sha256(NORMALIZED[url])

Classified == probe.fn = "process_article" /\ probe.result # NoResult

\* C27: process_article calls the model at most 3 times; a transient failure
\* (timeout, 5xx, rate limit) is followed by another call unless it was the third;
\* once the calls are used up, or at once when the response does not parse, a
\* rejected record is returned; every record returned carries the article's id.
C27_ClassifierRetries ==
    probe.fn = "process_article" =>
        /\ Len(probe.calls) <= 3
        /\ \A k \in 1..Len(probe.calls) :
              /\ probe.calls[k] \in TRANSIENT /\ k < 3 /\ Classified => Len(probe.calls) > k
              /\ probe.calls[k] = "unparseable" =>
                    /\ k = Len(probe.calls)
                    /\ Classified
                    /\ ~probe.result.is_relevant
        /\ Len(probe.calls) = 3 /\ probe.calls[3] # "object" /\ Classified =>
              ~probe.result.is_relevant
        /\ Classified => probe.result.id = probe.article.id

\* C29: once the orchestrator has written an output file, both files are
\* written, each holds one line per candidate of all_articles in the same order,
\* the CSV has the eleven columns id, title, published_at, source_name,
\* source_type, url, full_text, author, section, language, retrieved_at in that
\* order in its header and eleven cells in every row, and neither file has
\* url_hash, content_hash, feed_url or api_source in it.
C29_EncodingsHoldTheSequence ==
    outputs.csv.written \/ outputs.jsonl.written =>
        /\ outputs.csv.written /\ outputs.jsonl.written
        /\ outputs.csv.header = <<"id", "title", "published_at", "source_name",
                                  "source_type", "url", "full_text", "author", "section",
                                  "language", "retrieved_at">>
        /\ Len(outputs.csv.lines) = Len(all_articles)
        /\ Len(outputs.jsonl.lines) = Len(all_articles)
        /\ \A i \in 1..Len(all_articles) :
              /\ i <= Len(outputs.csv.lines) =>
                    /\ Len(outputs.csv.lines[i]) = 11
                    /\ outputs.csv.lines[i][1] = all_articles[i].id
                    /\ outputs.csv.lines[i][6] = all_articles[i].url
              /\ i <= Len(outputs.jsonl.lines) =>
                    /\ outputs.jsonl.lines[i].id = all_articles[i].id
                    /\ outputs.jsonl.lines[i].title = all_articles[i].title
                    /\ outputs.jsonl.lines[i].url = all_articles[i].url
                    /\ DOMAIN outputs.jsonl.lines[i] \cap
                          {"url_hash", "content_hash", "feed_url", "api_source"} = {}

SeedScraped == probe.fn = "collect_from_scraping"

\* C30: for a seed of depth zero no links are discovered and the only URL
\* visited as an article is the seed's own, at most once; for a seed of depth
\* above zero the URLs visited are links of the seed page, at most 40 of them,
\* and none is visited twice.
C30_SeedOrItsLinks ==
    SeedScraped =>
        /\ probe.max_depth = 0 =>
              /\ ~probe.discovered
              /\ probe.article_urls = <<>>
              /\ Len(probe.visits) <= 1
              /\ \A i \in 1..Len(probe.visits) : probe.visits[i] = SEED_URL
        /\ probe.max_depth > 0 =>
              /\ Len(probe.article_urls) <= 40
              /\ Len(probe.visits) <= 40
              /\ \A i \in 1..Len(probe.visits) :
                    /\ probe.visits[i] \in Range(probe.hrefs)
                    /\ \A j \in 1..Len(probe.visits) :
                          probe.visits[i] = probe.visits[j] => i = j

C30_Witness ==
    /\ SeedScraped
    /\ probe.max_depth = 1
    /\ probe.at = "next_seed"
    /\ Len(probe.hrefs) = 84
    /\ Len(probe.visits) = 40
    /\ probe.visits[1] = 42

\* collect_from_scholar has gone through one result of a search
ScholarResultStep ==
    /\ gen.name = "scholar" /\ gen.pos > 0
    /\ gen'.name = "scholar" /\ gen'.pos = gen.pos + 1

\* C28: when collect_from_scholar goes through a result, it skips the paper
\* and leaves the ledger as it is if the ledger holds the paper's url_hash, and
\* otherwise yields the paper and adds its url_hash and nothing else to the
\* ledger, whatever fingerprints of title and date the ledger holds.
C28_ScholarUrlHashOnly ==
    [][ScholarResultStep =>
          IF gen'.paper.url_hash \in seen_hashes
          THEN /\ all_articles' = all_articles
               /\ seen_hashes' = seen_hashes
          ELSE /\ all_articles' = Append(all_articles, gen'.paper)
               /\ seen_hashes' = seen_hashes \cup {gen'.paper.url_hash}]_vars

C28_Witness ==
    /\ Len(all_articles) = 2
    /\ all_articles[1].source_type = "RSS"
    /\ all_articles[2].source_type = "SCHOLAR"
    /\ all_articles[2].url # all_articles[1].url
    /\ get_content_hash(all_articles[2].title, all_articles[2].published_at)
          = all_articles[1].content_hash
    /\ all_articles[1].content_hash \in seen_hashes
    /\ gen.name = "scholar"
    /\ gen.paper = all_articles[2]

ContentHashed == probe.fn = "get_content_hash" /\ probe.done

\* the first 10 characters of published_at, nothing for '' and None
day_of(published_at) ==
    IF published_at = <<>> \/ published_at = NULL THEN <<>>
    ELSE IF Len(published_at) <= 10 THEN published_at
    ELSE SubSeq(published_at, 1, 10)

SameTitle == strip(lower(probe.titles[1])) = strip(lower(probe.titles[2]))

SameDay == day_of(probe.dates[1]) = day_of(probe.dates[2])

\* C31, as stated: two (title, published_at) pairs get the same content hash
\* exactly when the titles agree up to case and surrounding whitespace and the
\* published_at values agree on their first 10 characters.
C31_SameHashIffSameTitleAndDay ==
    ContentHashed => ((probe.out[1] = probe.out[2]) <=> (SameTitle /\ SameDay))

\* C31, amended: pairs whose titles agree up to case and surrounding whitespace
\* and whose published_at agree on the first 10 characters get the same content
\* hash, and pairs with the same content hash agree so whenever neither
\* published_at has a '|' among its first 10 characters.
C31_SameHashIffSameTitleAndDayNoBar ==
    ContentHashed =>
        /\ SameTitle /\ SameDay => probe.out[1] = probe.out[2]
        /\ /\ probe.out[1] = probe.out[2]
           /\ "|" \notin Range(day_of(probe.dates[1]))
           /\ "|" \notin Range(day_of(probe.dates[2]))
           => SameTitle /\ SameDay

C31_Witness ==
    /\ ContentHashed
    /\ probe.titles = <<TITLE_A, TITLE_A_VARIANT>>
    /\ probe.dates = <<DATE_1_MORNING, DATE_1_NIGHT>>
    /\ probe.out[1] = probe.out[2]

\* a step that requests no feed, query, seed or article page and leaves the
\* ledger as it is
NoFetchNoInsert ==
    /\ net'.requests = <<>>
    /\ seen_hashes' = seen_hashes

\* C32, as stated: once the running total has reached target_total, no collector
\* issues a further fetch and no further fingerprint is inserted into the ledger
\* for the rest of the run.
C32_LazyEarlyStop ==
    [][target_reached(all_articles) => NoFetchNoInsert]_vars

\* url_hash = get_url_hash(url) of the URLs handed to scrape_article
SCRAPE_URL_HASHES == [url \in SCRAPE_URLS |-> get_url_hash("scrape", url)]

\* a step that is one call of scrape_article
ScrapeArticleStep == gen.name = "scrape" /\ gen.pos > 0 /\ last_scrape' # NoCall

\* C33: scrape_article called on a URL whose url_hash is already in the ledger
\* returns no candidate, issues no HTTP request and leaves the ledger unchanged.
C33_KnownUrlNotFetched ==
    [][(ScrapeArticleStep /\ SCRAPE_URL_HASHES[last_scrape'.url] \in seen_hashes) =>
         /\ ~last_scrape'.fetched
         /\ net'.requests = <<>>
         /\ seen_hashes' = seen_hashes
         /\ all_articles' = all_articles]_vars

C33_Witness ==
    /\ last_scrape # NoCall
    /\ ~last_scrape.fetched
    /\ net.requests = <<>>
    /\ SCRAPE_URL_HASHES[last_scrape.url] \in seen_hashes
    /\ gen.name = "scrape"

\* the ids of the candidates yielded by call k of two
ids_of(k) ==
    LET first == calls[k].start + 1
        last == IF k < Len(calls) THEN calls[k + 1].start ELSE Len(all_articles)
    IN  [i \in 1..(last - first + 1) |-> all_articles[first + i - 1].id]

\* the url_hash of the candidates yielded by call k
url_hashes_of(k) ==
    {all_articles[i].url_hash :
        i \in {j \in 1..Len(all_articles) :
                 /\ j > calls[k].start
                 /\ k = Len(calls) \/ j <= calls[k + 1].start}}

\* C34: a collector called without a ledger works on a new empty set of its own,
\* and a caller that creates a new set for every call (as build_raw_dataset does)
\* hands over an empty ledger each time, so two successive calls on unchanged
\* sources yield the same candidates (same ids in the same order); a set passed
\* in, an empty one included, is used by reference: the caller's set holds the
\* url_hash of every candidate the call yielded, and is untouched by a call made
\* without it.
C34_LedgerPerInvocation ==
    /\ (Returned(2) /\ probe.args[1] # "kept_set" /\ probe.args[2] # "kept_set")
          => ids_of(1) = ids_of(2)
    /\ (Returned(2) /\ probe.args = <<"None", "kept_set">>)
          => ids_of(1) = ids_of(2)
    /\ \A k \in 1..Len(calls) :
          /\ (k = Len(calls) /\ probe.args[k] # "None")
                => url_hashes_of(k) \subseteq caller_ledger
          /\ (k = Len(calls) /\ probe.args[k] = "None")
                => probe.own /\ caller_ledger = probe.caller
    /\ (Len(calls) = 1 /\ probe.args[1] = "None") => caller_ledger = {}

C34_Witness ==
    /\ Returned(2)
    /\ probe.fn = "ledger"
    /\ probe.args = <<"None", "new_set">>
    /\ ids_of(1) = ids_of(2)
    /\ ids_of(2) # <<>>
    /\ caller_ledger # {}

\* C35, as stated: the three copies of normalize_url return the same string for
\* every URL, hosts with several 'www.' included, so that the three copies of
\* get_url_hash give one URL the same url_hash.
C35_CopiesAgree ==
    /\ Normalized =>
          \A i \in 1..2 : \A copy \in URL_COPIES :
              normalize_url(copy, probe.urls[i]) = probe.out[i]
    /\ Hashed =>
          \A i \in 1..2 : \A copy \in URL_COPIES :
              get_url_hash(copy, probe.urls[i]) = probe.out[i]

\* C36, as stated: normalize_url is idempotent, normalize_url(normalize_url(u)) =
\* normalize_url(u) for every URL u, so that the url stored in a candidate hashes
\* to the candidate's url_hash.
C36_NormalizeIdempotent ==
    /\ Normalized =>
          \A i \in 1..2 : normalize_url(probe.copy, probe.out[i]) = probe.out[i]
    /\ Hashed =>
          \A i \in 1..2 :
              get_url_hash(probe.copy, normalize_url(probe.copy, probe.urls[i])) = probe.out[i]

\* the url_hash and content_hash of the candidates yielded so far
fingerprints_yielded ==
    UNION {{all_articles[i].url_hash, all_articles[i].content_hash} :
              i \in 1..Len(all_articles)}

\* C37, as stated: in a run of the RSS, API and scrape collectors over one ledger
\* that starts empty, the ledger equals at every point the set of the url_hash
\* and content_hash of the candidates yielded so far: no rejection changes it and
\* no fingerprint is inserted for an item that is not yielded.
C37_LedgerIsFingerprintsYielded == seen_hashes = fingerprints_yielded

\* the most collect_from_apis can yield: GNews 100, NewsAPI 50, Guardian 50
API_CEILING == GNEWS_CEILING + BACKUP_CEILING + BACKUP_CEILING

DefaultQuotas ==
    probe.quotas = [RSS |-> DEFAULT_RSS, API |-> DEFAULT_API, SCRAPE |-> DEFAULT_SCRAPE]

\* what backend k of those called so far yielded
yielded_by(k) ==
    (IF k < Len(probe.passed) THEN probe.passed[k + 1].collected ELSE probe.collected)
        - probe.passed[k].collected

\* C38: collect_from_apis yields at most min(max_articles, 200) candidates (GNews
\* at most 100, NewsAPI and Guardian at most 50 each); with the default quotas
\* RSS 300, API 250, Scrape 150 a run holds at most 650 candidates and never
\* reaches the default target of 700.
C38_ApiCeilingAndDefaultTotal ==
    /\ (ApisProbed /\ probe.stage # 1 /\ probe.passed # <<>>) =>
          /\ probe.collected <= Min(probe.max_articles, API_CEILING)
          /\ \A k \in 1..Len(probe.passed) :
                yielded_by(k) <= (IF k = 1 THEN GNEWS_CEILING ELSE BACKUP_CEILING)
    /\ DefaultQuotas =>
          /\ probe.total <= DEFAULT_RSS + API_CEILING + DEFAULT_SCRAPE
          /\ probe.total + (IF probe.phase = "api" THEN probe.collected ELSE 0)
                < DEFAULT_TARGET

C38_Witness ==
    /\ probe.fn = "build_raw_dataset"
    /\ probe.phase = "done"
    /\ DefaultQuotas
    /\ probe.max_articles = DEFAULT_API
    /\ probe.collected = API_CEILING
    /\ probe.total = DEFAULT_RSS + API_CEILING + DEFAULT_SCRAPE

StoreProbed == probe.fn = "classification"

\* C39, as stated: after any sequence of classification runs over overlapping
\* ranges, no article id is in both the accepted table (articles) and the
\* rejected table (rejected) of the store.
C39_TablesDisjoint ==
    StoreProbed => DOMAIN probe.store.articles \cap DOMAIN probe.store.rejected = {}

\* the ids of the first n input articles
input_ids(n) == [k \in 1..n |-> probe.articles[k].id]

====
